---- MODULE Spec2Model ----
(***************************************************************************)
(* Diff / patch / conflict core of yaml-note-mvp (packages/core-wasm),     *)
(* and the heading conversion md_headings_to_yaml of md_transform.rs.      *)
(*                                                                         *)
(* A document is a serde_json::Value.  Strings that the code takes apart   *)
(* (mapping keys, JSON-Pointer paths) are sequences of one-character       *)
(* strings; string scalars and operation names are only ever compared and  *)
(* are kept atomic.                                                        *)
(***************************************************************************)
EXTENDS Integers, Sequences, FiniteSets, TLC

VARIABLES
    yaml,       \* base_yaml / yaml_str: the document text the caller holds
    edited,     \* edited_yaml: the second document text
    patch,      \* patch_json / patch_str: the patch text handed to apply_patch
    pc,         \* the call that produced ret ("start" before any call)
    ret,        \* what that call returned
    frame       \* the locals of md_headings_to_yaml while it runs

vars == <<yaml, edited, patch, pc, ret, frame>>

-----------------------------------------------------------------------------
(* Bounds of the model *)

\* largest number of nodes of a document drawn as input
MaxNodes == 3
\* largest number of operations of a hand-written patch drawn as input
MaxOps == 2

-----------------------------------------------------------------------------
(* serde_json::Value *)

Null == [null |-> TRUE]
Bool(b) == [bool |-> b]
Number(n) == [num |-> n]
String(s) == [str |-> s]
Array(arr) == [arr |-> arr]
Object(map) == [obj |-> map]

IsArray(v) == DOMAIN v = {"arr"}
IsObject(v) == DOMAIN v = {"obj"}
IsString(v) == DOMAIN v = {"str"}

\* json!({}): the mapping without keys
EmptyMap == [k \in {} |-> Null]

\* Map::insert: sets the key, replacing a value already there
MapInsert(map, key, value) ==
    [k \in DOMAIN map \cup {key} |-> IF k = key THEN value ELSE map[k]]

\* Map::remove
MapRemove(map, key) == [k \in DOMAIN map \ {key} |-> map[k]]

\* Vec::insert(index, value), 0 <= index <= len
VecInsert(arr, index, value) ==
    SubSeq(arr, 1, index) \o <<value>> \o SubSeq(arr, index + 1, Len(arr))

\* Vec::remove(index), 0 <= index < len
VecRemove(arr, index) ==
    SubSeq(arr, 1, index) \o SubSeq(arr, index + 2, Len(arr))

\* arr[index] = value, 0 <= index < len
VecSet(arr, index, value) == [arr EXCEPT ![index + 1] = value]

-----------------------------------------------------------------------------
(* Strings that are taken apart: sequences of characters *)

\* the characters of the model in their byte order
Alphabet == <<"+", "-", "/", "0", "1", "2", "3", "4", "5", "6", "7", "8", "9",
              "a", "b", "c", "~">>

Digits == <<"0", "1", "2", "3", "4", "5", "6", "7", "8", "9">>

Rank(c) == CHOOSE i \in 1..Len(Alphabet) : Alphabet[i] = c

IsDigit(c) == \E i \in 1..Len(Digits) : Digits[i] = c

DigitValue(c) == (CHOOSE i \in 1..Len(Digits) : Digits[i] = c) - 1

\* str::cmp, the order of a BTreeMap's keys
RECURSIVE StrLess(_, _)
StrLess(s, t) ==
    IF t = <<>> THEN FALSE
    ELSE IF s = <<>> THEN TRUE
    ELSE IF Head(s) = Head(t) THEN StrLess(Tail(s), Tail(t))
    ELSE Rank(Head(s)) < Rank(Head(t))

\* the keys of a map in iteration order
RECURSIVE SortedKeys(_)
SortedKeys(keys) ==
    IF keys = {} THEN <<>>
    ELSE LET first == CHOOSE k \in keys : \A o \in keys \ {k} : StrLess(k, o)
         IN  <<first>> \o SortedKeys(keys \ {first})

\* str::split('/'): "" gives [""], "/a" gives ["", "a"]
RECURSIVE SplitFrom(_, _, _)
SplitFrom(s, i, cur) ==
    IF i > Len(s) THEN <<cur>>
    ELSE IF s[i] = "/" THEN <<cur>> \o SplitFrom(s, i + 1, <<>>)
    ELSE SplitFrom(s, i + 1, Append(cur, s[i]))

split(s) == SplitFrom(s, 1, <<>>)

\* str::parse::<usize>: an optional '+' and at least one digit; -1 for Err
RECURSIVE DigitsValue(_, _)
DigitsValue(s, acc) ==
    IF s = <<>> THEN acc ELSE DigitsValue(Tail(s), acc * 10 + DigitValue(Head(s)))

parse_usize(s) ==
    LET body == IF s # <<>> /\ Head(s) = "+" THEN Tail(s) ELSE s
    IN  IF body # <<>> /\ \A i \in 1..Len(body) : IsDigit(body[i])
        THEN DigitsValue(body, 0)
        ELSE -1

\* usize::to_string
RECURSIVE usize_to_string(_)
usize_to_string(n) ==
    IF n < 10 THEN <<Digits[n + 1]>>
    ELSE usize_to_string(n \div 10) \o <<Digits[(n % 10) + 1]>>

-----------------------------------------------------------------------------
(* validate.rs: the path-addressed mutators.  Each takes the tree behind    *)
(* its &mut reference and returns ok/err together with the tree the        *)
(* reference holds when the call returns.                                   *)

Ok(doc) == [ok |-> TRUE, doc |-> doc, err |-> ""]
Err(doc, msg) == [ok |-> FALSE, doc |-> doc, err |-> msg]

\* *slot = r.doc for the child the recursion went into
InObject(map, key, r) == [r EXCEPT !.doc = Object(MapInsert(map, key, r.doc))]
InArray(arr, index, r) == [r EXCEPT !.doc = Array(VecSet(arr, index, r.doc))]

RECURSIVE add_value_at_path(_, _, _)

\* add_value_at_path without auto-vivification: a missing non-final key is
\* an error, as it is for remove and replace
add_value_at_path_strict(doc, path, value) ==
    IF path = <<>> THEN Ok(value)
    ELSE IF IsObject(doc) THEN
        LET map == doc.obj IN
        IF Len(path) = 1 THEN Ok(Object(MapInsert(map, path[1], value)))
        ELSE IF path[1] \in DOMAIN map
        THEN InObject(map, path[1],
                      add_value_at_path(map[path[1]], Tail(path), value))
        ELSE Err(doc, "Path not found")
    ELSE IF IsArray(doc) THEN
        LET arr == doc.arr IN
        IF path[1] = <<"-">> THEN
            IF Len(path) = 1 THEN Ok(Array(Append(arr, value)))
            ELSE Err(doc, "Cannot add nested value to array end index")
        ELSE
            LET index == parse_usize(path[1]) IN
            IF index < 0 THEN Err(doc, "Invalid array index")
            ELSE IF index > Len(arr) THEN Err(doc, "Array index out of bounds")
            ELSE IF Len(path) = 1 THEN
                IF index = Len(arr) THEN Ok(Array(Append(arr, value)))
                ELSE Ok(Array(VecInsert(arr, index, value)))
            ELSE IF index < Len(arr)
            THEN InArray(arr, index,
                         add_value_at_path(arr[index + 1], Tail(path), value))
            ELSE Err(doc, "Cannot access nested path at index")
    ELSE Err(doc, "Cannot add value to non-object and non-array")

\* add_value_at_path putting the value of the append marker in front of the
\* sequence
add_value_at_path_prepending(doc, path, value) ==
    IF path = <<>> THEN Ok(value)
    ELSE IF IsObject(doc) THEN
        LET map == doc.obj IN
        IF Len(path) = 1 THEN Ok(Object(MapInsert(map, path[1], value)))
        ELSE IF path[1] \in DOMAIN map
        THEN InObject(map, path[1],
                      add_value_at_path(map[path[1]], Tail(path), value))
        ELSE InObject(map, path[1],
                      add_value_at_path(Object(EmptyMap), Tail(path), value))
    ELSE IF IsArray(doc) THEN
        LET arr == doc.arr IN
        IF path[1] = <<"-">> THEN
            IF Len(path) = 1 THEN Ok(Array(<<value>> \o arr))
            ELSE Err(doc, "Cannot add nested value to array end index")
        ELSE
            LET index == parse_usize(path[1]) IN
            IF index < 0 THEN Err(doc, "Invalid array index")
            ELSE IF index > Len(arr) THEN Err(doc, "Array index out of bounds")
            ELSE IF Len(path) = 1 THEN
                IF index = Len(arr) THEN Ok(Array(Append(arr, value)))
                ELSE Ok(Array(VecInsert(arr, index, value)))
            ELSE IF index < Len(arr)
            THEN InArray(arr, index,
                         add_value_at_path(arr[index + 1], Tail(path), value))
            ELSE Err(doc, "Cannot access nested path at index")
    ELSE Err(doc, "Cannot add value to non-object and non-array")

\* add_value_at_path with arr[index] = value where the code has arr.insert
add_value_at_path_overwriting(doc, path, value) ==
    IF path = <<>> THEN Ok(value)
    ELSE IF IsObject(doc) THEN
        LET map == doc.obj IN
        IF Len(path) = 1 THEN Ok(Object(MapInsert(map, path[1], value)))
        ELSE IF path[1] \in DOMAIN map
        THEN InObject(map, path[1],
                      add_value_at_path(map[path[1]], Tail(path), value))
        ELSE InObject(map, path[1],
                      add_value_at_path(Object(EmptyMap), Tail(path), value))
    ELSE IF IsArray(doc) THEN
        LET arr == doc.arr IN
        IF path[1] = <<"-">> THEN
            IF Len(path) = 1 THEN Ok(Array(Append(arr, value)))
            ELSE Err(doc, "Cannot add nested value to array end index")
        ELSE
            LET index == parse_usize(path[1]) IN
            IF index < 0 THEN Err(doc, "Invalid array index")
            ELSE IF index > Len(arr) THEN Err(doc, "Array index out of bounds")
            ELSE IF Len(path) = 1 THEN
                IF index = Len(arr) THEN Ok(Array(Append(arr, value)))
                ELSE Ok(Array(VecSet(arr, index, value)))
            ELSE IF index < Len(arr)
            THEN InArray(arr, index,
                         add_value_at_path(arr[index + 1], Tail(path), value))
            ELSE Err(doc, "Cannot access nested path at index")
    ELSE Err(doc, "Cannot add value to non-object and non-array")

\* add_value_at_path refusing a final key the mapping already holds
add_value_at_path_no_overwrite(doc, path, value) ==
    IF path = <<>> THEN Ok(value)
    ELSE IF IsObject(doc) THEN
        LET map == doc.obj IN
        IF Len(path) = 1 THEN
            IF path[1] \in DOMAIN map THEN Err(doc, "Path already exists")
            ELSE Ok(Object(MapInsert(map, path[1], value)))
        ELSE IF path[1] \in DOMAIN map
        THEN InObject(map, path[1],
                      add_value_at_path(map[path[1]], Tail(path), value))
        ELSE InObject(map, path[1],
                      add_value_at_path(Object(EmptyMap), Tail(path), value))
    ELSE IF IsArray(doc) THEN
        LET arr == doc.arr IN
        IF path[1] = <<"-">> THEN
            IF Len(path) = 1 THEN Ok(Array(Append(arr, value)))
            ELSE Err(doc, "Cannot add nested value to array end index")
        ELSE
            LET index == parse_usize(path[1]) IN
            IF index < 0 THEN Err(doc, "Invalid array index")
            ELSE IF index > Len(arr) THEN Err(doc, "Array index out of bounds")
            ELSE IF Len(path) = 1 THEN
                IF index = Len(arr) THEN Ok(Array(Append(arr, value)))
                ELSE Ok(Array(VecInsert(arr, index, value)))
            ELSE IF index < Len(arr)
            THEN InArray(arr, index,
                         add_value_at_path(arr[index + 1], Tail(path), value))
            ELSE Err(doc, "Cannot access nested path at index")
    ELSE Err(doc, "Cannot add value to non-object and non-array")

\* add_value_at_path auto-vivifying below the append marker too: it pushes an
\* empty mapping and adds into it
add_value_at_path_nested_append(doc, path, value) ==
    IF path = <<>> THEN Ok(value)
    ELSE IF IsObject(doc) THEN
        LET map == doc.obj IN
        IF Len(path) = 1 THEN Ok(Object(MapInsert(map, path[1], value)))
        ELSE IF path[1] \in DOMAIN map
        THEN InObject(map, path[1],
                      add_value_at_path(map[path[1]], Tail(path), value))
        ELSE InObject(map, path[1],
                      add_value_at_path(Object(EmptyMap), Tail(path), value))
    ELSE IF IsArray(doc) THEN
        LET arr == doc.arr IN
        IF path[1] = <<"-">> THEN
            IF Len(path) = 1 THEN Ok(Array(Append(arr, value)))
            ELSE LET r == add_value_at_path(Object(EmptyMap), Tail(path), value)
                 IN  [r EXCEPT !.doc = Array(Append(arr, r.doc))]
        ELSE
            LET index == parse_usize(path[1]) IN
            IF index < 0 THEN Err(doc, "Invalid array index")
            ELSE IF index > Len(arr) THEN Err(doc, "Array index out of bounds")
            ELSE IF Len(path) = 1 THEN
                IF index = Len(arr) THEN Ok(Array(Append(arr, value)))
                ELSE Ok(Array(VecInsert(arr, index, value)))
            ELSE IF index < Len(arr)
            THEN InArray(arr, index,
                         add_value_at_path(arr[index + 1], Tail(path), value))
            ELSE Err(doc, "Cannot access nested path at index")
    ELSE Err(doc, "Cannot add value to non-object and non-array")

add_value_at_path(doc, path, value) ==
    IF path = <<>> THEN Ok(value)
    ELSE IF IsObject(doc) THEN
        LET map == doc.obj IN
        IF Len(path) = 1 THEN Ok(Object(MapInsert(map, path[1], value)))
        ELSE IF path[1] \in DOMAIN map
        THEN InObject(map, path[1],
                      add_value_at_path(map[path[1]], Tail(path), value))
        ELSE InObject(map, path[1],
                      add_value_at_path(Object(EmptyMap), Tail(path), value))
    ELSE IF IsArray(doc) THEN
        LET arr == doc.arr IN
        IF path[1] = <<"-">> THEN
            IF Len(path) = 1 THEN Ok(Array(Append(arr, value)))
            ELSE Err(doc, "Cannot add nested value to array end index")
        ELSE
            LET index == parse_usize(path[1]) IN
            IF index < 0 THEN Err(doc, "Invalid array index")
            ELSE IF index > Len(arr) THEN Err(doc, "Array index out of bounds")
            ELSE IF Len(path) = 1 THEN
                IF index = Len(arr) THEN Ok(Array(Append(arr, value)))
                ELSE Ok(Array(VecInsert(arr, index, value)))
            ELSE IF index < Len(arr)
            THEN InArray(arr, index,
                         add_value_at_path(arr[index + 1], Tail(path), value))
            ELSE Err(doc, "Cannot access nested path at index")
    ELSE Err(doc, "Cannot add value to non-object and non-array")

RECURSIVE remove_value_at_path(_, _)

\* remove_value_at_path taking an index past the end as nothing to remove
remove_value_at_path_lenient(doc, path) ==
    IF path = <<>> THEN Err(doc, "Cannot remove root")
    ELSE IF IsObject(doc) THEN
        LET map == doc.obj IN
        IF Len(path) = 1 THEN
            IF path[1] \notin DOMAIN map THEN Err(doc, "Path not found")
            ELSE Ok(Object(MapRemove(map, path[1])))
        ELSE IF path[1] \in DOMAIN map
        THEN InObject(map, path[1],
                      remove_value_at_path(map[path[1]], Tail(path)))
        ELSE Err(doc, "Path not found")
    ELSE IF IsArray(doc) THEN
        LET arr == doc.arr IN
        IF path[1] = <<"-">>
        THEN Err(doc, "Cannot remove from end of array marker")
        ELSE
            LET index == parse_usize(path[1]) IN
            IF index < 0 THEN Err(doc, "Invalid array index")
            ELSE IF index >= Len(arr) THEN Ok(doc)
            ELSE IF Len(path) = 1 THEN Ok(Array(VecRemove(arr, index)))
            ELSE InArray(arr, index,
                         remove_value_at_path(arr[index + 1], Tail(path)))
    ELSE Err(doc, "Cannot remove value from non-object and non-array")

\* remove_value_at_path clearing the root to null on the empty path
remove_value_at_path_root(doc, path) ==
    IF path = <<>> THEN Ok(Null)
    ELSE IF IsObject(doc) THEN
        LET map == doc.obj IN
        IF Len(path) = 1 THEN
            IF path[1] \notin DOMAIN map THEN Err(doc, "Path not found")
            ELSE Ok(Object(MapRemove(map, path[1])))
        ELSE IF path[1] \in DOMAIN map
        THEN InObject(map, path[1],
                      remove_value_at_path(map[path[1]], Tail(path)))
        ELSE Err(doc, "Path not found")
    ELSE IF IsArray(doc) THEN
        LET arr == doc.arr IN
        IF path[1] = <<"-">>
        THEN Err(doc, "Cannot remove from end of array marker")
        ELSE
            LET index == parse_usize(path[1]) IN
            IF index < 0 THEN Err(doc, "Invalid array index")
            ELSE IF index >= Len(arr) THEN Err(doc, "Array index out of bounds")
            ELSE IF Len(path) = 1 THEN Ok(Array(VecRemove(arr, index)))
            ELSE InArray(arr, index,
                         remove_value_at_path(arr[index + 1], Tail(path)))
    ELSE Err(doc, "Cannot remove value from non-object and non-array")

\* remove_value_at_path taking an absent final key as already removed
remove_value_at_path_silent(doc, path) ==
    IF path = <<>> THEN Err(doc, "Cannot remove root")
    ELSE IF IsObject(doc) THEN
        LET map == doc.obj IN
        IF Len(path) = 1 THEN
            IF path[1] \notin DOMAIN map THEN Ok(doc)
            ELSE Ok(Object(MapRemove(map, path[1])))
        ELSE IF path[1] \in DOMAIN map
        THEN InObject(map, path[1],
                      remove_value_at_path(map[path[1]], Tail(path)))
        ELSE Err(doc, "Path not found")
    ELSE IF IsArray(doc) THEN
        LET arr == doc.arr IN
        IF path[1] = <<"-">>
        THEN Err(doc, "Cannot remove from end of array marker")
        ELSE
            LET index == parse_usize(path[1]) IN
            IF index < 0 THEN Err(doc, "Invalid array index")
            ELSE IF index >= Len(arr) THEN Err(doc, "Array index out of bounds")
            ELSE IF Len(path) = 1 THEN Ok(Array(VecRemove(arr, index)))
            ELSE InArray(arr, index,
                         remove_value_at_path(arr[index + 1], Tail(path)))
    ELSE Err(doc, "Cannot remove value from non-object and non-array")

\* remove_value_at_path with Vec::pop for Vec::remove: the last element goes,
\* whatever the index
remove_value_at_path_popping(doc, path) ==
    IF path = <<>> THEN Err(doc, "Cannot remove root")
    ELSE IF IsObject(doc) THEN
        LET map == doc.obj IN
        IF Len(path) = 1 THEN
            IF path[1] \notin DOMAIN map THEN Err(doc, "Path not found")
            ELSE Ok(Object(MapRemove(map, path[1])))
        ELSE IF path[1] \in DOMAIN map
        THEN InObject(map, path[1],
                      remove_value_at_path(map[path[1]], Tail(path)))
        ELSE Err(doc, "Path not found")
    ELSE IF IsArray(doc) THEN
        LET arr == doc.arr IN
        IF path[1] = <<"-">>
        THEN Err(doc, "Cannot remove from end of array marker")
        ELSE
            LET index == parse_usize(path[1]) IN
            IF index < 0 THEN Err(doc, "Invalid array index")
            ELSE IF index >= Len(arr) THEN Err(doc, "Array index out of bounds")
            ELSE IF Len(path) = 1
            THEN Ok(Array(SubSeq(arr, 1, Len(arr) - 1)))
            ELSE InArray(arr, index,
                         remove_value_at_path(arr[index + 1], Tail(path)))
    ELSE Err(doc, "Cannot remove value from non-object and non-array")

remove_value_at_path(doc, path) ==
    IF path = <<>> THEN Err(doc, "Cannot remove root")
    ELSE IF IsObject(doc) THEN
        LET map == doc.obj IN
        IF Len(path) = 1 THEN
            IF path[1] \notin DOMAIN map THEN Err(doc, "Path not found")
            ELSE Ok(Object(MapRemove(map, path[1])))
        ELSE IF path[1] \in DOMAIN map
        THEN InObject(map, path[1],
                      remove_value_at_path(map[path[1]], Tail(path)))
        ELSE Err(doc, "Path not found")
    ELSE IF IsArray(doc) THEN
        LET arr == doc.arr IN
        IF path[1] = <<"-">>
        THEN Err(doc, "Cannot remove from end of array marker")
        ELSE
            LET index == parse_usize(path[1]) IN
            IF index < 0 THEN Err(doc, "Invalid array index")
            ELSE IF index >= Len(arr) THEN Err(doc, "Array index out of bounds")
            ELSE IF Len(path) = 1 THEN Ok(Array(VecRemove(arr, index)))
            ELSE InArray(arr, index,
                         remove_value_at_path(arr[index + 1], Tail(path)))
    ELSE Err(doc, "Cannot remove value from non-object and non-array")

RECURSIVE replace_value_at_path(_, _, _)

\* replace_value_at_path with the auto-vivification of add_value_at_path
\* copied into it: a missing non-final key gets an empty mapping, and the
\* final key is then not found
replace_value_at_path_vivifying(doc, path, value) ==
    IF path = <<>> THEN Ok(value)
    ELSE IF IsObject(doc) THEN
        LET map == doc.obj IN
        IF Len(path) = 1 THEN
            IF path[1] \notin DOMAIN map
            THEN Err(doc, "Path not found for replace")
            ELSE Ok(Object(MapInsert(map, path[1], value)))
        ELSE IF path[1] \in DOMAIN map
        THEN InObject(map, path[1],
                      replace_value_at_path(map[path[1]], Tail(path), value))
        ELSE InObject(map, path[1],
                      replace_value_at_path(Object(EmptyMap), Tail(path), value))
    ELSE IF IsArray(doc) THEN
        LET arr == doc.arr IN
        IF path[1] = <<"-">>
        THEN Err(doc, "Cannot replace end of array marker")
        ELSE
            LET index == parse_usize(path[1]) IN
            IF index < 0 THEN Err(doc, "Invalid array index")
            ELSE IF index >= Len(arr) THEN Err(doc, "Array index out of bounds")
            ELSE IF Len(path) = 1 THEN Ok(Array(VecSet(arr, index, value)))
            ELSE InArray(arr, index,
                         replace_value_at_path(arr[index + 1], Tail(path), value))
    ELSE Err(doc, "Cannot replace value in non-object and non-array")

\* replace_value_at_path overwriting a scalar it meets with tokens left
replace_value_at_path_through_scalar(doc, path, value) ==
    IF path = <<>> THEN Ok(value)
    ELSE IF IsObject(doc) THEN
        LET map == doc.obj IN
        IF Len(path) = 1 THEN
            IF path[1] \notin DOMAIN map
            THEN Err(doc, "Path not found for replace")
            ELSE Ok(Object(MapInsert(map, path[1], value)))
        ELSE IF path[1] \in DOMAIN map
        THEN InObject(map, path[1],
                      replace_value_at_path(map[path[1]], Tail(path), value))
        ELSE Err(doc, "Path not found for replace")
    ELSE IF IsArray(doc) THEN
        LET arr == doc.arr IN
        IF path[1] = <<"-">>
        THEN Err(doc, "Cannot replace end of array marker")
        ELSE
            LET index == parse_usize(path[1]) IN
            IF index < 0 THEN Err(doc, "Invalid array index")
            ELSE IF index >= Len(arr) THEN Err(doc, "Array index out of bounds")
            ELSE IF Len(path) = 1 THEN Ok(Array(VecSet(arr, index, value)))
            ELSE InArray(arr, index,
                         replace_value_at_path(arr[index + 1], Tail(path), value))
    ELSE Ok(value)

\* replace_value_at_path without the contains_key check: map.insert creates
\* a final key that is absent
replace_value_at_path_upsert(doc, path, value) ==
    IF path = <<>> THEN Ok(value)
    ELSE IF IsObject(doc) THEN
        LET map == doc.obj IN
        IF Len(path) = 1 THEN Ok(Object(MapInsert(map, path[1], value)))
        ELSE IF path[1] \in DOMAIN map
        THEN InObject(map, path[1],
                      replace_value_at_path(map[path[1]], Tail(path), value))
        ELSE Err(doc, "Path not found for replace")
    ELSE IF IsArray(doc) THEN
        LET arr == doc.arr IN
        IF path[1] = <<"-">>
        THEN Err(doc, "Cannot replace end of array marker")
        ELSE
            LET index == parse_usize(path[1]) IN
            IF index < 0 THEN Err(doc, "Invalid array index")
            ELSE IF index >= Len(arr) THEN Err(doc, "Array index out of bounds")
            ELSE IF Len(path) = 1 THEN Ok(Array(VecSet(arr, index, value)))
            ELSE InArray(arr, index,
                         replace_value_at_path(arr[index + 1], Tail(path), value))
    ELSE Err(doc, "Cannot replace value in non-object and non-array")

replace_value_at_path(doc, path, value) ==
    IF path = <<>> THEN Ok(value)
    ELSE IF IsObject(doc) THEN
        LET map == doc.obj IN
        IF Len(path) = 1 THEN
            IF path[1] \notin DOMAIN map
            THEN Err(doc, "Path not found for replace")
            ELSE Ok(Object(MapInsert(map, path[1], value)))
        ELSE IF path[1] \in DOMAIN map
        THEN InObject(map, path[1],
                      replace_value_at_path(map[path[1]], Tail(path), value))
        ELSE Err(doc, "Path not found for replace")
    ELSE IF IsArray(doc) THEN
        LET arr == doc.arr IN
        IF path[1] = <<"-">>
        THEN Err(doc, "Cannot replace end of array marker")
        ELSE
            LET index == parse_usize(path[1]) IN
            IF index < 0 THEN Err(doc, "Invalid array index")
            ELSE IF index >= Len(arr) THEN Err(doc, "Array index out of bounds")
            ELSE IF Len(path) = 1 THEN Ok(Array(VecSet(arr, index, value)))
            ELSE InArray(arr, index,
                         replace_value_at_path(arr[index + 1], Tail(path), value))
    ELSE Err(doc, "Cannot replace value in non-object and non-array")

-----------------------------------------------------------------------------
(* validate.rs: apply_json_patch.  A patch is a Vec<Value>; an element is   *)
(* a record of the three fields the code reads, Missing for a field that    *)
(* op.get() does not find.                                                  *)

Missing == [missing |-> TRUE]

PatchOp(op, path, value) == [op |-> op, path |-> path, value |-> value]

\* the loop body with an operation it does not know passed over
apply_operation_ignoring(result, op) ==
    IF op.op = Missing THEN Err(result, "Missing 'op' field in patch")
    ELSE IF ~IsString(op.op) THEN Err(result, "Invalid op field")
    ELSE IF op.path = Missing THEN Err(result, "Missing 'path' field in patch")
    ELSE IF ~IsString(op.path) THEN Err(result, "Invalid path field")
    ELSE
        LET op_type == op.op.str
            path_tokens == split(op.path.str)
        IN
        IF path_tokens[1] # <<>> THEN Err(result, "Invalid JSON Pointer")
        ELSE IF op_type = "add" THEN
            IF op.value = Missing
            THEN Err(result, "Missing 'value' field for 'add' operation")
            ELSE add_value_at_path(result, Tail(path_tokens), op.value)
        ELSE IF op_type = "remove" THEN
            remove_value_at_path(result, Tail(path_tokens))
        ELSE IF op_type = "replace" THEN
            IF op.value = Missing
            THEN Err(result, "Missing 'value' field for 'replace' operation")
            ELSE replace_value_at_path(result, Tail(path_tokens), op.value)
        ELSE Ok(result)

\* the body of the for loop, on the working copy `result`
apply_operation(result, op) ==
    IF op.op = Missing THEN Err(result, "Missing 'op' field in patch")
    ELSE IF ~IsString(op.op) THEN Err(result, "Invalid op field")
    ELSE IF op.path = Missing THEN Err(result, "Missing 'path' field in patch")
    ELSE IF ~IsString(op.path) THEN Err(result, "Invalid path field")
    ELSE
        LET op_type == op.op.str
            path_tokens == split(op.path.str)
        IN
        IF path_tokens[1] # <<>> THEN Err(result, "Invalid JSON Pointer")
        ELSE IF op_type = "add" THEN
            IF op.value = Missing
            THEN Err(result, "Missing 'value' field for 'add' operation")
            ELSE add_value_at_path(result, Tail(path_tokens), op.value)
        ELSE IF op_type = "remove" THEN
            remove_value_at_path(result, Tail(path_tokens))
        ELSE IF op_type = "replace" THEN
            IF op.value = Missing
            THEN Err(result, "Missing 'value' field for 'replace' operation")
            ELSE replace_value_at_path(result, Tail(path_tokens), op.value)
        ELSE Err(result, "Unsupported operation")

\* the for loop from operation i on: `doc` is the tree behind the caller's
\* reference, `result` the working copy; `?` returns at the first error
RECURSIVE apply_loop(_, _, _, _)

\* the loop with the error of an operation dropped: the patch carries on
\* with the next operation and returns what it got
apply_loop_skipping(doc, result, patch_ops, i) ==
    IF i > Len(patch_ops) THEN [ok |-> TRUE, value |-> result, doc |-> doc]
    ELSE LET r == apply_operation(result, patch_ops[i]) IN
         apply_loop(doc, r.doc, patch_ops, i + 1)

\* the loop working on the caller's tree itself, not on a clone
apply_loop_in_place(doc, result, patch_ops, i) ==
    IF i > Len(patch_ops) THEN [ok |-> TRUE, value |-> result, doc |-> result]
    ELSE LET r == apply_operation(result, patch_ops[i]) IN
         IF r.ok THEN apply_loop(doc, r.doc, patch_ops, i + 1)
         ELSE [ok |-> FALSE, err |-> r.err, at |-> i - 1, doc |-> result]

\* the loop checking each operation against the tree the caller passed in
\* before applying it to the working copy
apply_loop_on_original(doc, result, patch_ops, i) ==
    IF i > Len(patch_ops) THEN [ok |-> TRUE, value |-> result, doc |-> doc]
    ELSE LET check == apply_operation(doc, patch_ops[i])
             r == apply_operation(result, patch_ops[i])
         IN  IF ~check.ok
             THEN [ok |-> FALSE, err |-> check.err, at |-> i - 1, doc |-> doc]
             ELSE IF r.ok THEN apply_loop(doc, r.doc, patch_ops, i + 1)
             ELSE apply_loop(doc, result, patch_ops, i + 1)

\* the loop taking the operations of the patch from the last to the first
apply_loop_reversed(doc, result, patch_ops, i) ==
    IF i > Len(patch_ops) THEN [ok |-> TRUE, value |-> result, doc |-> doc]
    ELSE LET r == apply_operation(result, patch_ops[Len(patch_ops) + 1 - i]) IN
         IF r.ok THEN apply_loop(doc, r.doc, patch_ops, i + 1)
         ELSE [ok |-> FALSE, err |-> r.err, at |-> i - 1, doc |-> doc]

apply_loop(doc, result, patch_ops, i) ==
    IF i > Len(patch_ops) THEN [ok |-> TRUE, value |-> result, doc |-> doc]
    ELSE LET r == apply_operation(result, patch_ops[i]) IN
         IF r.ok THEN apply_loop(doc, r.doc, patch_ops, i + 1)
         ELSE [ok |-> FALSE, err |-> r.err, at |-> i - 1, doc |-> doc]

\* apply_json_patch with `result` started as an empty mapping, not doc.clone()
apply_json_patch_fresh(doc, patch_ops) ==
    apply_loop(doc, Object(EmptyMap), patch_ops, 1)

\* apply_json_patch leaving the loop after the first operation
apply_json_patch_first(doc, patch_ops) ==
    apply_loop(doc, doc, SubSeq(patch_ops, 1, 1), 1)

\* Result<Value, String>, with the caller's tree as it is on return
apply_json_patch(doc, patch_ops) == apply_loop(doc, doc, patch_ops, 1)

-----------------------------------------------------------------------------
(* Document and patch texts.  A YAML text that parses is the tree it        *)
(* denotes together with its layout: serde_yaml::to_string writes block     *)
(* layout only, so re-encoding a flow-layout text does not give it back.    *)

YamlText(tree, style) == [yaml |-> tree, style |-> style]

\* a text serde_yaml rejects, such as "not: [valid"
BadYaml == [bad |-> "yaml"]

\* a text that parses as serde_yaml::Value and has no serde_json::Value:
\* a mapping with a sequence as key, such as "? [1]\n: x"
ComplexKeyYaml == [complexkey |-> TRUE]

Parsed(value) == [ok |-> TRUE, value |-> value]
ParseError == [ok |-> FALSE]

\* serde_yaml::from_str::<serde_yaml::Value>
yaml_from_str(text) ==
    IF "yaml" \in DOMAIN text THEN Parsed(text.yaml)
    ELSE IF text = ComplexKeyYaml THEN Parsed(ComplexKeyYaml)
    ELSE ParseError

\* serde_json::to_value(serde_yaml::Value)
to_value(yaml_value) ==
    IF yaml_value = ComplexKeyYaml THEN ParseError ELSE Parsed(yaml_value)

\* serde_yaml::from_str::<serde_json::Value>
json_from_yaml_str(text) ==
    IF "yaml" \in DOMAIN text THEN Parsed(text.yaml) ELSE ParseError

\* serde_yaml::to_string
yaml_to_string(value) == YamlText(value, "block")

\* a JSON text holding an array of objects
JsonArrayText(elements) == [json |-> elements]

\* a text serde_json rejects, such as "not json"
BadJson == [bad |-> "json"]

\* a JSON text that is no array, such as "{}"
JsonObjectText == [jsonobject |-> TRUE]

\* serde_json::from_str::<Vec<Value>>
vec_from_str(text) ==
    IF "json" \in DOMAIN text THEN Parsed(text.json) ELSE ParseError

\* ValidationResult::single_error(ErrorInfo::new(0, message, "")).to_json()
single_error(message) == [success |-> FALSE, message |-> message]

IsErrorPayload(text) == "success" \in DOMAIN text

\* validate.rs apply_patch
validate_apply_patch(yaml_str, patch_str) ==
    LET y == json_from_yaml_str(yaml_str)
        p == vec_from_str(patch_str)
    IN  IF ~y.ok THEN single_error("YAML parse error")
        ELSE IF ~p.ok THEN single_error("Invalid JSON Patch format")
        ELSE LET r == apply_json_patch(y.value, p.value) IN
             IF r.ok THEN yaml_to_string(r.value)
             ELSE single_error("Failed to apply patch")

-----------------------------------------------------------------------------
(* The json_patch crate, which diff.rs calls and the repository does not    *)
(* hold: its diff and patch follow sections 4.2, 4.3 and 6 of the           *)
(* specification.                                                           *)

\* JSON-Pointer escaping of one segment: '~' is "~0", '/' is "~1"
RECURSIVE escape(_)
escape(token) ==
    IF token = <<>> THEN <<>>
    ELSE IF Head(token) = "~" THEN <<"~", "0">> \o escape(Tail(token))
    ELSE IF Head(token) = "/" THEN <<"~", "1">> \o escape(Tail(token))
    ELSE <<Head(token)>> \o escape(Tail(token))

RECURSIVE unescape(_)
unescape(token) ==
    IF token = <<>> THEN <<>>
    ELSE IF Len(token) >= 2 /\ token[1] = "~" /\ token[2] = "0"
    THEN <<"~">> \o unescape(Tail(Tail(token)))
    ELSE IF Len(token) >= 2 /\ token[1] = "~" /\ token[2] = "1"
    THEN <<"/">> \o unescape(Tail(Tail(token)))
    ELSE <<Head(token)>> \o unescape(Tail(token))

\* the wire path of a child: path + "/" + escaped segment
child_path(path, token) == path \o <<"/">> \o escape(token)

AddOperation(path, value) == PatchOp(String("add"), String(path), value)
RemoveOperation(path) == PatchOp(String("remove"), String(path), Missing)
ReplaceOperation(path, value) == PatchOp(String("replace"), String(path), value)

RECURSIVE diff_impl(_, _, _)
RECURSIVE diff_keys(_, _, _, _)
RECURSIVE diff_removed_keys(_, _, _)
RECURSIVE diff_elements(_, _, _, _)
RECURSIVE diff_added_elements(_, _, _)
RECURSIVE diff_removed_elements(_, _, _)

\* keys of target in order: recurse on a key of both, Add a key of target only
diff_keys(left, right, path, keys) ==
    IF keys = <<>> THEN <<>>
    ELSE LET key == Head(keys) IN
         (IF key \in DOMAIN left
          THEN diff_impl(left[key], right[key], child_path(path, key))
          ELSE <<AddOperation(child_path(path, key), right[key])>>)
         \o diff_keys(left, right, path, Tail(keys))

\* then the keys of base only: Remove
diff_removed_keys(right, path, keys) ==
    IF keys = <<>> THEN <<>>
    ELSE (IF Head(keys) \in DOMAIN right THEN <<>>
          ELSE <<RemoveOperation(child_path(path, Head(keys)))>>)
         \o diff_removed_keys(right, path, Tail(keys))

\* position by position up to the shorter length: Replace a mismatch
diff_elements(left, right, path, idx) ==
    IF idx >= Len(left) \/ idx >= Len(right) THEN <<>>
    ELSE (IF left[idx + 1] = right[idx + 1] THEN <<>>
          ELSE <<ReplaceOperation(child_path(path, usize_to_string(idx)),
                                  right[idx + 1])>>)
         \o diff_elements(left, right, path, idx + 1)

\* trailing elements of target: Add at increasing indices
diff_added_elements(right, path, idx) ==
    IF idx >= Len(right) THEN <<>>
    ELSE <<AddOperation(child_path(path, usize_to_string(idx)), right[idx + 1])>>
         \o diff_added_elements(right, path, idx + 1)

\* trailing elements of base: Remove in descending index order, from idx
\* down to keep
diff_removed_elements(path, idx, keep) ==
    IF idx < keep THEN <<>>
    ELSE <<RemoveOperation(child_path(path, usize_to_string(idx)))>>
         \o diff_removed_elements(path, idx - 1, keep)

diff_impl(left, right, path) ==
    IF left = right THEN <<>>
    ELSE IF IsObject(left) /\ IsObject(right) THEN
        diff_keys(left.obj, right.obj, path, SortedKeys(DOMAIN right.obj))
        \o diff_removed_keys(right.obj, path, SortedKeys(DOMAIN left.obj))
    ELSE IF IsArray(left) /\ IsArray(right) THEN
        diff_elements(left.arr, right.arr, path, 0)
        \o diff_added_elements(right.arr, path, Len(left.arr))
        \o diff_removed_elements(path, Len(left.arr) - 1, Len(right.arr))
    ELSE <<ReplaceOperation(path, right)>>

\* json_patch::diff
json_diff(left, right) == diff_impl(left, right, <<>>)

\* serde_json::to_string(&Patch)
patch_to_string(operations) == JsonArrayText(operations)

\* a well-formed Add, Remove or Replace object
IsPatchOperation(op) ==
    /\ IsString(op.op)
    /\ op.op.str \in {"add", "remove", "replace"}
    /\ IsString(op.path)
    /\ op.path.str = <<>> \/ Head(op.path.str) = "/"
    /\ op.op.str \in {"add", "replace"} => op.value # Missing

\* serde_json::from_str::<Patch>
patch_from_str(text) ==
    IF "json" \in DOMAIN text
       /\ \A i \in 1..Len(text.json) : IsPatchOperation(text.json[i])
    THEN Parsed(text.json)
    ELSE ParseError

\* one operation of json_patch::patch, on unescaped tokens
patch_operation(result, op) ==
    LET tokens == Tail(split(op.path.str))
        path == [i \in 1..Len(tokens) |-> unescape(tokens[i])]
    IN  IF op.op.str = "add" THEN add_value_at_path(result, path, op.value)
        ELSE IF op.op.str = "remove" THEN remove_value_at_path(result, path)
        ELSE replace_value_at_path(result, path, op.value)

RECURSIVE patch_loop(_, _, _)
patch_loop(result, operations, i) ==
    IF i > Len(operations) THEN Parsed(result)
    ELSE LET r == patch_operation(result, operations[i]) IN
         IF r.ok THEN patch_loop(r.doc, operations, i + 1) ELSE ParseError

\* json_patch::patch(&mut doc, &patch): Ok with the patched tree, or Err
json_patch(doc, operations) == patch_loop(doc, operations, 1)

-----------------------------------------------------------------------------
(* diff.rs *)

\* yaml_diff answering a parse failure with an error payload, as the
\* entry points of validate.rs do
yaml_diff_hard(base_yaml, edited_yaml) ==
    LET base == yaml_from_str(base_yaml)
        edited_value == yaml_from_str(edited_yaml)
    IN  IF base.ok /\ edited_value.ok THEN
            LET base_json == to_value(base.value)
                edited_json == to_value(edited_value.value)
            IN  IF ~base_json.ok THEN JsonArrayText(<<>>)
                ELSE IF ~edited_json.ok THEN JsonArrayText(<<>>)
                ELSE patch_to_string(json_diff(base_json.value, edited_json.value))
        ELSE single_error("YAML parse error")

\* yaml_diff giving up, with the empty patch, on two documents whose roots are
\* of different kinds
yaml_diff_same_kind(base_yaml, edited_yaml) ==
    LET base == yaml_from_str(base_yaml)
        edited_value == yaml_from_str(edited_yaml)
    IN  IF base.ok /\ edited_value.ok THEN
            LET base_json == to_value(base.value)
                edited_json == to_value(edited_value.value)
            IN  IF ~base_json.ok THEN JsonArrayText(<<>>)
                ELSE IF ~edited_json.ok THEN JsonArrayText(<<>>)
                ELSE IF DOMAIN base_json.value # DOMAIN edited_json.value
                THEN JsonArrayText(<<>>)
                ELSE patch_to_string(json_diff(base_json.value, edited_json.value))
        ELSE JsonArrayText(<<>>)

\* yaml_diff with the two documents handed to the diff in the other order
yaml_diff_swapped(base_yaml, edited_yaml) ==
    LET base == yaml_from_str(base_yaml)
        edited_value == yaml_from_str(edited_yaml)
    IN  IF base.ok /\ edited_value.ok THEN
            LET base_json == to_value(base.value)
                edited_json == to_value(edited_value.value)
            IN  IF ~base_json.ok THEN JsonArrayText(<<>>)
                ELSE IF ~edited_json.ok THEN JsonArrayText(<<>>)
                ELSE patch_to_string(json_diff(edited_json.value, base_json.value))
        ELSE JsonArrayText(<<>>)

yaml_diff(base_yaml, edited_yaml) ==
    LET base == yaml_from_str(base_yaml)
        edited_value == yaml_from_str(edited_yaml)
    IN  IF base.ok /\ edited_value.ok THEN
            LET base_json == to_value(base.value)
                edited_json == to_value(edited_value.value)
            IN  IF ~base_json.ok THEN JsonArrayText(<<>>)
                ELSE IF ~edited_json.ok THEN JsonArrayText(<<>>)
                ELSE patch_to_string(json_diff(base_json.value, edited_json.value))
        ELSE JsonArrayText(<<>>)

\* diff.rs apply_patch giving back the document re-encoded, not the text it
\* was handed, when the patch does not apply
diff_apply_patch_reencoding(yaml_text, patch_json) ==
    LET orig_yaml == yaml_from_str(yaml_text) IN
    IF orig_yaml.ok THEN
        LET json_value == to_value(orig_yaml.value) IN
        IF ~json_value.ok THEN yaml_text
        ELSE LET parsed == patch_from_str(patch_json) IN
             IF parsed.ok THEN
                 LET patched == json_patch(json_value.value, parsed.value) IN
                 IF patched.ok THEN yaml_to_string(patched.value)
                 ELSE yaml_to_string(json_value.value)
             ELSE yaml_text
    ELSE yaml_text

\* diff.rs apply_patch
diff_apply_patch(yaml_text, patch_json) ==
    LET orig_yaml == yaml_from_str(yaml_text) IN
    IF orig_yaml.ok THEN
        LET json_value == to_value(orig_yaml.value) IN
        IF ~json_value.ok THEN yaml_text
        ELSE LET parsed == patch_from_str(patch_json) IN
             IF parsed.ok THEN
                 LET patched == json_patch(json_value.value, parsed.value) IN
                 IF patched.ok THEN yaml_to_string(patched.value)
                 ELSE yaml_text
             ELSE yaml_text
    ELSE yaml_text

\* the Replace operations of a patch, as {path, value} objects, in order
RECURSIVE replace_conflicts(_)
replace_conflicts(operations) ==
    IF operations = <<>> THEN <<>>
    ELSE (IF Head(operations).op = String("replace")
          THEN <<[path |-> Head(operations).path.str,
                  value |-> Head(operations).value]>>
          ELSE <<>>)
         \o replace_conflicts(Tail(operations))

NoConflict == [has_conflict |-> FALSE, conflicts |-> <<>>]

\* detect_conflicts as its comment reads: a conflict needs several Replaces
detect_conflicts_several(base_yaml, edited_yaml) ==
    LET base == yaml_from_str(base_yaml)
        edited_value == yaml_from_str(edited_yaml)
    IN  IF base.ok /\ edited_value.ok THEN
            LET base_json == to_value(base.value)
                edited_json == to_value(edited_value.value)
            IN  IF ~base_json.ok THEN NoConflict
                ELSE IF ~edited_json.ok THEN NoConflict
                ELSE LET conflicts ==
                             replace_conflicts(json_diff(base_json.value,
                                                         edited_json.value))
                     IN  [has_conflict |-> Len(conflicts) > 1,
                          conflicts |-> conflicts]
        ELSE NoConflict

detect_conflicts(base_yaml, edited_yaml) ==
    LET base == yaml_from_str(base_yaml)
        edited_value == yaml_from_str(edited_yaml)
    IN  IF base.ok /\ edited_value.ok THEN
            LET base_json == to_value(base.value)
                edited_json == to_value(edited_value.value)
            IN  IF ~base_json.ok THEN NoConflict
                ELSE IF ~edited_json.ok THEN NoConflict
                ELSE LET conflicts ==
                             replace_conflicts(json_diff(base_json.value,
                                                         edited_json.value))
                     IN  [has_conflict |-> conflicts # <<>>,
                          conflicts |-> conflicts]
        ELSE NoConflict

-----------------------------------------------------------------------------
(* Inputs *)

Scalars == {Null, Bool(TRUE), Number(1), String("s")}

RECURSIVE TreesOfSize(_, _, _)
RECURSIVE SeqsOfSize(_, _, _)
RECURSIVE MapsOfSize(_, _, _, _)

\* the trees of exactly n nodes with the given scalars as leaves and
\* mapping keys among keys
TreesOfSize(scalars, keys, n) ==
    IF n < 1 THEN {}
    ELSE (IF n = 1 THEN scalars ELSE {})
         \cup {Array(s) : s \in SeqsOfSize(scalars, keys, n - 1)}
         \cup {Object(m) :
                  m \in MapsOfSize(scalars, keys, SortedKeys(keys), n - 1)}

SeqsOfSize(scalars, keys, n) ==
    IF n = 0 THEN {<<>>}
    ELSE UNION {{<<t>> \o s : t \in TreesOfSize(scalars, keys, k),
                              s \in SeqsOfSize(scalars, keys, n - k)} :
                k \in 1..n}

MapsOfSize(scalars, keys, ks, n) ==
    IF ks = <<>> THEN (IF n = 0 THEN {EmptyMap} ELSE {})
    ELSE MapsOfSize(scalars, keys, Tail(ks), n)
         \cup UNION {{MapInsert(m, Head(ks), t) :
                          t \in TreesOfSize(scalars, keys, k),
                          m \in MapsOfSize(scalars, keys, Tail(ks), n - k)} :
                     k \in 1..n}

Trees(scalars, keys, n) == UNION {TreesOfSize(scalars, keys, k) : k \in 1..n}

\* keys of the documents that are diffed: a plain one and one that needs
\* both JSON-Pointer escapes
DiffKeys == {<<"a">>, <<"/", "~">>}

DiffDocs == Trees(Scalars, DiffKeys, MaxNodes)

DiffTexts ==
    {YamlText(t, "block") : t \in DiffDocs} \cup {BadYaml, ComplexKeyYaml}

NoReturn == [none |-> TRUE]

\* no call of md_headings_to_yaml is running
NoFrame == [idle |-> TRUE]

-----------------------------------------------------------------------------
(* A caller that diffs two documents and then uses the diff *)

Init ==
    /\ yaml \in DiffTexts
    /\ edited \in DiffTexts
    /\ patch = JsonArrayText(<<>>)
    /\ pc = "start"
    /\ ret = NoReturn
    /\ frame = NoFrame

\* diff = yaml_diff(base, edited); the caller keeps the diff as its patch
YamlDiff ==
    /\ pc = "start"
    /\ ret' = yaml_diff(yaml, edited)
    /\ patch' = ret'
    /\ pc' = "yaml_diff"
    /\ UNCHANGED <<yaml, edited, frame>>

\* validate.rs apply_patch(base, diff)
ApplyDiff ==
    /\ pc = "yaml_diff"
    /\ ret' = validate_apply_patch(yaml, patch)
    /\ pc' = "validate::apply_patch"
    /\ UNCHANGED <<yaml, edited, patch, frame>>

\* diff.rs apply_patch(base, diff)
DiffApplyDiff ==
    /\ pc = "yaml_diff"
    /\ ret' = diff_apply_patch(yaml, patch)
    /\ pc' = "diff::apply_patch"
    /\ UNCHANGED <<yaml, edited, patch, frame>>

\* detect_conflicts(base, edited), beside the diff of the same pair
DetectConflicts ==
    /\ pc = "yaml_diff"
    /\ ret' = detect_conflicts(yaml, edited)
    /\ pc' = "detect_conflicts"
    /\ UNCHANGED <<yaml, edited, patch, frame>>

Next == YamlDiff \/ ApplyDiff \/ DiffApplyDiff \/ DetectConflicts

Spec == Init /\ [][Next]_vars

-----------------------------------------------------------------------------
(* A caller of the three mutators: one tree, one path, one value *)

\* largest number of tokens of a path drawn as input
MaxPathLen == 3

\* keys of the documents that are patched
PatchKeys == {<<"a">>, <<"b">>}

\* path tokens: keys present and absent, indices, the append marker
PathTokens == {<<"a">>, <<"b">>, <<"c">>, <<"0">>, <<"1">>, <<"-">>}

\* the wire paths of n tokens
RECURSIVE PointersOfLen(_)
PointersOfLen(n) ==
    IF n = 0 THEN {<<>>}
    ELSE {p \o <<"/">> \o t : p \in PointersOfLen(n - 1), t \in PathTokens}

Pointers == UNION {PointersOfLen(n) : n \in 0..MaxPathLen}

\* the value an operation carries
NewValue == Number(2)

PathDocs == Trees(Scalars, PatchKeys, MaxNodes)

PathOperations ==
    {AddOperation(p, NewValue) : p \in Pointers}
    \cup {RemoveOperation(p) : p \in Pointers}
    \cup {ReplaceOperation(p, NewValue) : p \in Pointers}

InitPath ==
    /\ yaml \in {YamlText(t, "block") : t \in PathDocs}
    /\ edited = yaml
    /\ patch \in {JsonArrayText(<<op>>) : op \in PathOperations}
    /\ pc = "start"
    /\ ret = NoReturn
    /\ frame = NoFrame

\* the tree, the operation and the path tokens of the call
TheDoc == yaml.yaml
TheOp == patch.json[1]
ThePath == Tail(split(TheOp.path.str))

AddValueAtPath ==
    /\ pc = "start"
    /\ TheOp.op = String("add")
    /\ ret' = add_value_at_path(TheDoc, ThePath, TheOp.value)
    /\ pc' = "add_value_at_path"
    /\ UNCHANGED <<yaml, edited, patch, frame>>

RemoveValueAtPath ==
    /\ pc = "start"
    /\ TheOp.op = String("remove")
    /\ ret' = remove_value_at_path(TheDoc, ThePath)
    /\ pc' = "remove_value_at_path"
    /\ UNCHANGED <<yaml, edited, patch, frame>>

ReplaceValueAtPath ==
    /\ pc = "start"
    /\ TheOp.op = String("replace")
    /\ ret' = replace_value_at_path(TheDoc, ThePath, TheOp.value)
    /\ pc' = "replace_value_at_path"
    /\ UNCHANGED <<yaml, edited, patch, frame>>

NextPath == AddValueAtPath \/ RemoveValueAtPath \/ ReplaceValueAtPath

SpecPath == InitPath /\ [][NextPath]_vars

-----------------------------------------------------------------------------
(* A caller that applies a hand-written patch to a document *)

\* the single scalar of the documents that are patched
PatchScalars == {Number(1)}

PatchDocs == Trees(PatchScalars, PatchKeys, MaxNodes)

\* document texts as a user types them, not in the layout serde_yaml writes
PatchDocTexts ==
    {YamlText(t, "flow") : t \in PatchDocs} \cup {BadYaml, ComplexKeyYaml}

PatchPaths == {<<"/", "a">>, <<"/", "a", "/", "b">>, <<"/", "0">>}

\* Add, Remove and Replace at each path, and the objects the loop rejects:
\* an unsupported op, no op, no path, no value, a path without leading '/'
PatchOperations ==
    {AddOperation(p, NewValue) : p \in PatchPaths}
    \cup {RemoveOperation(p) : p \in PatchPaths}
    \cup {ReplaceOperation(p, NewValue) : p \in PatchPaths}
    \cup {PatchOp(String("move"), String(<<"/", "a">>), NewValue),
          PatchOp(Missing, String(<<"/", "a">>), NewValue),
          PatchOp(String("remove"), Missing, Missing),
          PatchOp(String("add"), String(<<"/", "a">>), Missing),
          PatchOp(String("replace"), String(<<"a">>), NewValue)}

RECURSIVE PatchesOfLen(_)
PatchesOfLen(n) ==
    IF n = 0 THEN {<<>>}
    ELSE {Append(ops, op) : ops \in PatchesOfLen(n - 1), op \in PatchOperations}

PatchTexts ==
    {JsonArrayText(ops) : ops \in UNION {PatchesOfLen(n) : n \in 0..MaxOps}}
    \cup {BadJson, JsonObjectText}

InitPatch ==
    /\ yaml \in PatchDocTexts
    /\ edited = yaml
    /\ patch \in PatchTexts
    /\ pc = "start"
    /\ ret = NoReturn
    /\ frame = NoFrame

\* validate.rs apply_patch(yaml_str, patch_str)
ApplyPatch ==
    /\ pc = "start"
    /\ ret' = validate_apply_patch(yaml, patch)
    /\ pc' = "validate::apply_patch"
    /\ UNCHANGED <<yaml, edited, patch, frame>>

\* diff.rs apply_patch(yaml, patch_json)
DiffApplyPatch ==
    /\ pc = "start"
    /\ ret' = diff_apply_patch(yaml, patch)
    /\ pc' = "diff::apply_patch"
    /\ UNCHANGED <<yaml, edited, patch, frame>>

\* apply_json_patch(&yaml, &patch) on the parsed inputs
ApplyJsonPatch ==
    /\ pc = "start"
    /\ json_from_yaml_str(yaml).ok
    /\ vec_from_str(patch).ok
    /\ ret' = apply_json_patch(json_from_yaml_str(yaml).value,
                               vec_from_str(patch).value)
    /\ pc' = "apply_json_patch"
    /\ UNCHANGED <<yaml, edited, patch, frame>>

NextPatch == ApplyPatch \/ DiffApplyPatch \/ ApplyJsonPatch

SpecPatch == InitPatch /\ [][NextPatch]_vars

-----------------------------------------------------------------------------
(* Properties of the diffing caller *)

Decodes(text) == "yaml" \in DOMAIN text

\* every mapping key of the tree, at any depth, is free of '/' and '~'
RECURSIVE PlainKeys(_)
PlainKeys(tree) ==
    IF IsObject(tree) THEN
        \A k \in DOMAIN tree.obj :
            /\ \A i \in 1..Len(k) : k[i] \notin {"/", "~"}
            /\ PlainKeys(tree.obj[k])
    ELSE IF IsArray(tree) THEN
        \A i \in 1..Len(tree.arr) : PlainKeys(tree.arr[i])
    ELSE TRUE

\* C1: for every pair of trees A and B, applying diff(A, B) to A with the
\* Patch Applier of validate.rs succeeds and yields a tree equal to B.
C1_DiffThenApply ==
    (pc = "validate::apply_patch" /\ Decodes(yaml) /\ Decodes(edited))
        => ret = yaml_to_string(edited.yaml)

\* The same with documents whose keys need no escaping: the only pairs on
\* which validate.rs fails to apply a diff are those with '/' or '~' in a
\* key that the diff addresses.
DiffThenApplyPlainKeys ==
    (pc = "validate::apply_patch" /\ Decodes(yaml) /\ Decodes(edited)
        /\ PlainKeys(yaml.yaml) /\ PlainKeys(edited.yaml))
        => ret = yaml_to_string(edited.yaml)

\* diff.rs apply_patch, which unescapes, gives the target for every pair
DiffThenApplyUnescaping ==
    (pc = "diff::apply_patch" /\ Decodes(yaml) /\ Decodes(edited))
        => ret = yaml_to_string(edited.yaml)

IsScalar(v) == ~IsArray(v) /\ ~IsObject(v)

\* C2: for every tree T, diff(T, T) is the empty operation sequence, and
\* applying the empty sequence to T returns a tree equal to T.
C2_IdentityDiff ==
    (Decodes(yaml) /\ edited = yaml) =>
        /\ pc = "yaml_diff" => ret = JsonArrayText(<<>>)
        /\ pc = "validate::apply_patch" =>
               /\ patch = JsonArrayText(<<>>)
               /\ ret = yaml_to_string(yaml.yaml)

\* a nested tree has been diffed against itself and the diff applied to it
C2_Witness ==
    /\ pc = "validate::apply_patch"
    /\ Decodes(yaml) /\ edited = yaml
    /\ IsObject(yaml.yaml)
    /\ \E k \in DOMAIN yaml.yaml.obj :
           IsArray(yaml.yaml.obj[k]) /\ yaml.yaml.obj[k].arr # <<>>

\* C5: if either input text fails to decode, diff returns the empty patch
\* [] and detect_conflicts returns has_conflict = false with no conflicts;
\* neither ever returns an error object.
C5_FailSoftDiff ==
    /\ pc = "yaml_diff" =>
           /\ ~IsErrorPayload(ret) /\ "json" \in DOMAIN ret
           /\ (~Decodes(yaml) \/ ~Decodes(edited)) => ret = JsonArrayText(<<>>)
    /\ pc = "detect_conflicts" =>
           /\ ~IsErrorPayload(ret) /\ "has_conflict" \in DOMAIN ret
           /\ (~Decodes(yaml) \/ ~Decodes(edited)) => ret = NoConflict

\* detect_conflicts has answered for a malformed base and a decodable
\* mapping, after yaml_diff answered [] for the same pair
C5_Witness ==
    /\ pc = "detect_conflicts"
    /\ yaml = BadYaml
    /\ Decodes(edited) /\ IsObject(edited.yaml) /\ DOMAIN edited.yaml.obj # {}
    /\ patch = JsonArrayText(<<>>)
    /\ ret = NoConflict

\* the Replace operations of a patch document, in order
ReplacesOf(operations) ==
    SelectSeq(operations, LAMBDA o : o.op = String("replace"))

\* base and edited are mappings over the same keys that differ in the scalar
\* value of key k alone
OneScalarChange(base, target, k) ==
    /\ IsObject(base) /\ IsObject(target)
    /\ DOMAIN base.obj = DOMAIN target.obj
    /\ k \in DOMAIN base.obj
    /\ IsScalar(base.obj[k]) /\ IsScalar(target.obj[k])
    /\ base.obj[k] # target.obj[k]
    /\ \A o \in DOMAIN base.obj \ {k} : base.obj[o] = target.obj[o]

-----------------------------------------------------------------------------
(* Properties of the mutators *)

InMutator ==
    pc \in {"add_value_at_path", "remove_value_at_path", "replace_value_at_path"}

\* the node a path addresses: mapping keys by name, sequence elements by
\* index; Missing when the path leaves the tree
RECURSIVE Resolve(_, _)
Resolve(tree, path) ==
    IF path = <<>> THEN tree
    ELSE IF IsObject(tree) THEN
        IF path[1] \in DOMAIN tree.obj
        THEN Resolve(tree.obj[path[1]], Tail(path))
        ELSE Missing
    ELSE IF IsArray(tree) THEN
        LET index == parse_usize(path[1]) IN
        IF index >= 0 /\ index < Len(tree.arr)
        THEN Resolve(tree.arr[index + 1], Tail(path))
        ELSE Missing
    ELSE Missing

Prefix(path, n) == SubSeq(path, 1, n)

\* the path leaves the tree at a mapping that lacks a non-final key: n tokens
\* resolve to a mapping, token n + 1 is not a key of it and is not the last
LeavesAt(tree, path, n) ==
    /\ n + 1 < Len(path)
    /\ IsObject(Resolve(tree, Prefix(path, n)))
    /\ path[n + 1] \notin DOMAIN Resolve(tree, Prefix(path, n)).obj

\* every key and element of old is in new with its old content
RECURSIVE Kept(_, _)
Kept(old, new) ==
    IF IsObject(old) THEN
        /\ IsObject(new)
        /\ DOMAIN old.obj \subseteq DOMAIN new.obj
        /\ \A k \in DOMAIN old.obj : Kept(old.obj[k], new.obj[k])
    ELSE IF IsArray(old) THEN
        /\ IsArray(new)
        /\ Len(new.arr) = Len(old.arr)
        /\ \A i \in 1..Len(old.arr) : Kept(old.arr[i], new.arr[i])
    ELSE new = old

RECURSIVE NodeCount(_)
RECURSIVE NodeCountOfSeq(_)
RECURSIVE NodeCountOfMap(_, _)
NodeCountOfSeq(arr) ==
    IF arr = <<>> THEN 0 ELSE NodeCount(Head(arr)) + NodeCountOfSeq(Tail(arr))
NodeCountOfMap(map, keys) ==
    IF keys = <<>> THEN 0
    ELSE NodeCount(map[Head(keys)]) + NodeCountOfMap(map, Tail(keys))
NodeCount(tree) ==
    IF IsObject(tree)
    THEN 1 + NodeCountOfMap(tree.obj, SortedKeys(DOMAIN tree.obj))
    ELSE IF IsArray(tree) THEN 1 + NodeCountOfSeq(tree.arr)
    ELSE 1

\* C7: if insert (Add), delete (Remove) or set (Replace) returns an error,
\* the tree it was called on is the tree before the call; in particular no
\* empty mapping created on the way stays behind.
C7_MutatorsAllOrNothing ==
    (InMutator /\ ~ret.ok) => ret.doc = TheDoc

\* an Add has failed two mapping levels down, on a scalar
C7_Witness ==
    /\ pc = "add_value_at_path"
    /\ ~ret.ok
    /\ Len(ThePath) = 3
    /\ IsObject(TheDoc)
    /\ IsObject(Resolve(TheDoc, Prefix(ThePath, 1)))
    /\ IsScalar(Resolve(TheDoc, Prefix(ThePath, 2)))

\* An Add that leaves the tree at a missing mapping key cannot fail: below
\* that key every node is a mapping it has just created.
VivifyingAddSucceeds ==
    (pc = "add_value_at_path"
        /\ \E n \in 0..Len(ThePath) : LeavesAt(TheDoc, ThePath, n)) => ret.ok

\* C10: an Add whose path traverses mapping keys that do not exist creates an
\* empty mapping at each missing non-final key and stores the value at the
\* final key; on the empty mapping, Add at /a/b/c yields {a: {b: {c: value}}};
\* all keys already present are kept.
C10_AutoVivification ==
    pc = "add_value_at_path" =>
        \A n \in 0..Len(ThePath) :
            LeavesAt(TheDoc, ThePath, n) =>
                /\ ret.ok
                /\ \A j \in (n + 1)..(Len(ThePath) - 1) :
                       /\ IsObject(Resolve(ret.doc, Prefix(ThePath, j)))
                       /\ DOMAIN Resolve(ret.doc, Prefix(ThePath, j)).obj
                              = {ThePath[j + 1]}
                /\ Resolve(ret.doc, ThePath) = TheOp.value
                /\ Kept(TheDoc, ret.doc)
                /\ NodeCount(ret.doc) = NodeCount(TheDoc)
                       + (Len(ThePath) - n - 1) + NodeCount(TheOp.value)
                /\ (TheDoc = Object(EmptyMap)
                        /\ ThePath = << <<"a">>, <<"b">>, <<"c">> >>) =>
                       ret.doc = Object(<<"a">> :> Object(<<"b">> :>
                                     Object(<<"c">> :> TheOp.value)))

\* Add at /a/b/c on a mapping that holds b and not a
C10_Witness ==
    /\ pc = "add_value_at_path"
    /\ ThePath = << <<"a">>, <<"b">>, <<"c">> >>
    /\ IsObject(TheDoc)
    /\ DOMAIN TheDoc.obj = {<<"b">>}
    /\ ret.ok
    /\ DOMAIN ret.doc.obj = {<<"a">>, <<"b">>}
    /\ ret.doc.obj[<<"a">>] = Object(<<"b">> :> Object(<<"c">> :> TheOp.value))

-----------------------------------------------------------------------------
(* Properties of the Patch Applier *)

PatchDoc == json_from_yaml_str(yaml).value
PatchOps == vec_from_str(patch).value

\* the working tree after the first n operations, each applied to the tree
\* its predecessor left; the first error stays
RECURSIVE After(_, _, _)
After(doc, operations, n) ==
    IF n = 0 THEN Ok(doc)
    ELSE LET before == After(doc, operations, n - 1) IN
         IF before.ok THEN apply_operation(before.doc, operations[n])
         ELSE before

\* operations 0..i-1 apply and operation i fails on the tree they leave
FailsAt(doc, operations, i) ==
    /\ i < Len(operations)
    /\ After(doc, operations, i).ok
    /\ ~After(doc, operations, i + 1).ok

ApplyFails(doc, operations) ==
    \E i \in 0..Len(operations) : FailsAt(doc, operations, i)

\* C3: if the operation at some index i of a patch fails, apply returns a
\* failure and nothing of operations 0..i-1 can be seen: the caller's tree
\* is as before the call and no half-applied tree is returned.
C3_PatchAtomicity ==
    (pc # "start" /\ json_from_yaml_str(yaml).ok /\ vec_from_str(patch).ok) =>
        \A i \in 0..Len(PatchOps) :
            FailsAt(PatchDoc, PatchOps, i) =>
                /\ pc = "apply_json_patch" =>
                       ret = [ok |-> FALSE,
                              err |-> After(PatchDoc, PatchOps, i + 1).err,
                              at |-> i,
                              doc |-> PatchDoc]
                /\ pc = "validate::apply_patch" =>
                       ret = single_error("Failed to apply patch")
                /\ pc = "diff::apply_patch" => ret = yaml

\* a patch has failed at its second operation after its first one changed
\* the working copy
C3_Witness ==
    /\ pc = "apply_json_patch"
    /\ Len(PatchOps) = 2
    /\ FailsAt(PatchDoc, PatchOps, 1)
    /\ After(PatchDoc, PatchOps, 1).doc # PatchDoc
    /\ ~ret.ok

\* one of the three failures of apply_patch: the document does not decode,
\* the patch text is no array of well-formed operations, an operation fails
DiffApplyFailure ==
    \/ ~yaml_from_str(yaml).ok
    \/ ~to_value(yaml_from_str(yaml).value).ok
    \/ ~patch_from_str(patch).ok
    \/ ~json_patch(PatchDoc, patch_from_str(patch).value).ok
    \/ ApplyFails(PatchDoc, PatchOps)

ValidateApplyFailure ==
    \/ ~json_from_yaml_str(yaml).ok
    \/ ~vec_from_str(patch).ok
    \/ ApplyFails(PatchDoc, PatchOps)

\* C4 as claimed: whenever the document text fails to decode, the patch text
\* is malformed or an operation fails to apply, apply_patch returns exactly
\* the original doc_text and never an error payload; of both functions that
\* carry the name.
C4_FailSoftApplyPatch ==
    /\ (pc = "diff::apply_patch" /\ DiffApplyFailure) =>
           ret = yaml /\ ~IsErrorPayload(ret)
    /\ (pc = "validate::apply_patch" /\ ValidateApplyFailure) =>
           ret = yaml /\ ~IsErrorPayload(ret)

\* C4 amended: diff.rs apply_patch returns exactly the original doc_text
\* on each of these failures and never an error payload; validate.rs
\* apply_patch returns an error payload with success = false on each of them.
C4_FailSoftDiffApplyPatch ==
    /\ pc = "diff::apply_patch" =>
           /\ ~IsErrorPayload(ret)
           /\ DiffApplyFailure => ret = yaml
    /\ (pc = "validate::apply_patch" /\ ValidateApplyFailure) =>
           IsErrorPayload(ret) /\ ret.success = FALSE /\ ret # yaml

\* diff.rs apply_patch has answered a patch whose second operation fails
\* after the first one applied
C4_Witness ==
    /\ pc = "diff::apply_patch"
    /\ Decodes(yaml)
    /\ patch_from_str(patch).ok
    /\ Len(PatchOps) = 2
    /\ FailsAt(PatchDoc, PatchOps, 1)
    /\ After(PatchDoc, PatchOps, 1).doc # PatchDoc
    /\ ret = yaml

\* C8: after every call of the Patch Applier, successful or failed, the tree
\* the caller passed in is unchanged; the working copy is the only thing
\* returned.
C8_CopyOnWrite ==
    pc = "apply_json_patch" =>
        /\ ret.doc = PatchDoc
        /\ ret.ok => ret.value = After(PatchDoc, PatchOps, Len(PatchOps)).doc
        /\ ~ret.ok => "value" \notin DOMAIN ret

\* a patch of two operations has applied and changed the tree
C8_Witness ==
    /\ pc = "apply_json_patch"
    /\ Len(PatchOps) = 2
    /\ ret.ok
    /\ ret.value # PatchDoc
    /\ ret.doc = PatchDoc

\* the path of an operation that has one
PathOf(op) == Tail(split(op.path.str))

\* C9: the operations of a patch are applied in list order, each against the
\* tree the operations before it produced, not against the original tree: a
\* Replace or Remove at a path that an earlier Add of the patch created
\* succeeds, and one at a path an earlier Remove deleted fails.
C9_SequentialSemantics ==
    pc = "apply_json_patch" =>
        /\ ret.ok = After(PatchDoc, PatchOps, Len(PatchOps)).ok
        /\ ret.ok => ret.value = After(PatchDoc, PatchOps, Len(PatchOps)).doc
        /\ \A i \in 0..Len(PatchOps) :
               FailsAt(PatchDoc, PatchOps, i) => ~ret.ok /\ ret.at = i
        /\ (/\ Len(PatchOps) = 2
            /\ IsPatchOperation(PatchOps[1]) /\ IsPatchOperation(PatchOps[2])
            /\ PatchOps[1].path = PatchOps[2].path
            /\ IsObject(PatchDoc) /\ Len(PathOf(PatchOps[1])) = 1) =>
               /\ (/\ PatchOps[1].op.str = "add"
                   /\ PatchOps[2].op.str \in {"replace", "remove"}) => ret.ok
               /\ (/\ PatchOps[1].op.str = "remove"
                   /\ PatchOps[2].op.str \in {"replace", "remove"}) => ~ret.ok

\* Add at a key the mapping lacks, then Replace at it, has applied
C9_Witness ==
    /\ pc = "apply_json_patch"
    /\ Len(PatchOps) = 2
    /\ PatchOps[1].op = String("add")
    /\ PatchOps[2].op = String("replace")
    /\ PatchOps[1].path = PatchOps[2].path
    /\ IsObject(PatchDoc)
    /\ Resolve(PatchDoc, PathOf(PatchOps[1])) = Missing
    /\ ret.ok
    /\ Resolve(ret.value, PathOf(PatchOps[1])) = NewValue

\* Remove at a key the mapping holds, then Replace at it, has failed at the
\* second operation
RemoveThenReplaceFails ==
    /\ pc = "apply_json_patch"
    /\ Len(PatchOps) = 2
    /\ PatchOps[1].op = String("remove")
    /\ PatchOps[2].op = String("replace")
    /\ PatchOps[1].path = PatchOps[2].path
    /\ Resolve(PatchDoc, PathOf(PatchOps[1])) # Missing
    /\ ~ret.ok /\ ret.at = 1

-----------------------------------------------------------------------------
(* Properties of the mutators, by the kind of the node addressed *)

\* the path tokens of the calls these properties are checked on: a is a key
\* some mappings hold, and b, which others hold, is never addressed
NodeTokens == {<<"a">>, <<"0">>, <<"1">>, <<"-">>}

RECURSIVE NodePointersOfLen(_)
NodePointersOfLen(n) ==
    IF n = 0 THEN {<<>>}
    ELSE {p \o <<"/">> \o t : p \in NodePointersOfLen(n - 1), t \in NodeTokens}

NodePointers == UNION {NodePointersOfLen(n) : n \in 0..MaxPathLen}

NodeOperations ==
    {AddOperation(p, NewValue) : p \in NodePointers}
    \cup {RemoveOperation(p) : p \in NodePointers}
    \cup {ReplaceOperation(p, NewValue) : p \in NodePointers}

InitNode ==
    /\ yaml \in {YamlText(t, "block") : t \in PathDocs}
    /\ edited = yaml
    /\ patch \in {JsonArrayText(<<op>>) : op \in NodeOperations}
    /\ pc = "start"
    /\ ret = NoReturn
    /\ frame = NoFrame

SpecNode == InitNode /\ [][NextPath]_vars

\* the last token of the path
Final == ThePath[Len(ThePath)]

\* a node of the tree, as opposed to a path that leaves it
IsLeaf(node) == node # Missing /\ IsScalar(node)

\* tree with the node at path, which is in the tree, exchanged for node
RECURSIVE Put(_, _, _)
Put(tree, path, node) ==
    IF path = <<>> THEN node
    ELSE IF IsObject(tree) THEN
        Object([tree.obj EXCEPT
                   ![path[1]] = Put(tree.obj[path[1]], Tail(path), node)])
    ELSE
        Array([tree.arr EXCEPT
                  ![parse_usize(path[1]) + 1] =
                      Put(tree.arr[parse_usize(path[1]) + 1], Tail(path), node)])

\* the path addresses, by its last token, a sequence of the tree
OnSequence(doc, path) ==
    Len(path) >= 1 /\ IsArray(Resolve(doc, Prefix(path, Len(path) - 1)))

\* the path addresses, by its last token, a mapping of the tree
OnMapping(doc, path) ==
    Len(path) >= 1 /\ IsObject(Resolve(doc, Prefix(path, Len(path) - 1)))

\* the path addresses a sequence by an index that parses
OnIndex(doc, path) ==
    /\ OnSequence(doc, path)
    /\ path[Len(path)] # <<"-">>
    /\ parse_usize(path[Len(path)]) >= 0

\* r is what an Add of value at the append marker of a sequence has to return
Appended(doc, path, value, r) ==
    LET parent_path == Prefix(path, Len(path) - 1)
        old == Resolve(doc, parent_path).arr
        new == Resolve(r.doc, parent_path)
    IN  /\ r.ok
        /\ IsArray(new)
        /\ Len(new.arr) = Len(old) + 1
        /\ SubSeq(new.arr, 1, Len(old)) = old
        /\ new.arr[Len(old) + 1] = value
        /\ r.doc = Put(doc, parent_path, new)

\* C11: an Add whose final token is the append marker '-' and whose parent is
\* a sequence of length n always succeeds and yields a sequence of length
\* n + 1 whose first n elements are unchanged and whose last element is the
\* value; Add at /a/- with X on {a: [1]} yields {a: [1, X]}.
C11_AppendMarker ==
    pc = "add_value_at_path" =>
        /\ (OnSequence(TheDoc, ThePath) /\ Final = <<"-">>) =>
               Appended(TheDoc, ThePath, TheOp.value, ret)
        /\ (TheDoc = Object(<<"a">> :> Array(<<Number(1)>>))
                /\ ThePath = << <<"a">>, <<"-">> >>) =>
               ret.doc = Object(<<"a">> :> Array(<<Number(1), TheOp.value>>))

\* Add at /a/- on {a: [1]} has given {a: [1, value]}
C11_Witness ==
    /\ pc = "add_value_at_path"
    /\ TheDoc = Object(<<"a">> :> Array(<<Number(1)>>))
    /\ ThePath = << <<"a">>, <<"-">> >>
    /\ ret.ok
    /\ ret.doc = Object(<<"a">> :> Array(<<Number(1), NewValue>>))

\* r is what an Add of value at an index of a sequence has to return
Inserted(doc, path, value, r) ==
    LET parent_path == Prefix(path, Len(path) - 1)
        i == parse_usize(path[Len(path)])
        old == Resolve(doc, parent_path).arr
        n == Len(Resolve(doc, parent_path).arr)
        new == Resolve(r.doc, parent_path)
    IN  /\ r.ok <=> i <= n
        /\ r.ok =>
               /\ IsArray(new)
               /\ Len(new.arr) = n + 1
               /\ new.arr[i + 1] = value
               /\ \A j \in 1..i : new.arr[j] = old[j]
               /\ \A j \in (i + 1)..n : new.arr[j + 1] = old[j]
               /\ r.doc = Put(doc, parent_path, new)
        /\ i = n => r = add_value_at_path(doc, Append(parent_path, <<"-">>), value)
        /\ i > n => ~r.ok /\ r.doc = doc

\* C12: an Add whose final token is an index i on a sequence of length n
\* succeeds iff 0 <= i <= n; on success the result has length n + 1, the value
\* is at position i, the elements formerly at positions >= i are shifted
\* right by one and those before i are unchanged; i = n gives the result of
\* the append marker; i > n fails and leaves the sequence unchanged.
C12_IndexedInsert ==
    (pc = "add_value_at_path" /\ OnIndex(TheDoc, ThePath)) =>
        Inserted(TheDoc, ThePath, TheOp.value, ret)

\* Add at /1 on a sequence of two different elements has put the value between
\* them
C12_Witness ==
    /\ pc = "add_value_at_path"
    /\ TheDoc = Array(<<Number(1), String("s")>>)
    /\ ThePath = << <<"1">> >>
    /\ ret.ok
    /\ ret.doc = Array(<<Number(1), NewValue, String("s")>>)

\* Add at index 1 of the empty sequence has failed
IndexedInsertPastEnd ==
    /\ pc = "add_value_at_path"
    /\ TheDoc = Array(<<>>)
    /\ ThePath = << <<"1">> >>
    /\ ~ret.ok

\* at every sequence on the path, r is a failure unless the token is an index
\* within it, and a failure that leaves the tree as it was if it is not
IndicesWithin(doc, path, r) ==
    \A k \in 1..Len(path) :
        LET node == Resolve(doc, Prefix(path, k - 1))
            i == parse_usize(path[k])
        IN  IsArray(node) =>
                /\ r.ok => (path[k] # <<"-">> /\ 0 <= i /\ i < Len(node.arr))
                /\ (path[k] = <<"-">> \/ i >= Len(node.arr)) =>
                       ~r.ok /\ r.doc = doc

\* r is what a successful Remove (removes) or Replace at an index of a
\* sequence has to return
RemovedOrSet(doc, path, value, removes, r) ==
    LET parent_path == Prefix(path, Len(path) - 1)
        i == parse_usize(path[Len(path)])
        old == Resolve(doc, parent_path).arr
        n == Len(Resolve(doc, parent_path).arr)
        new == Resolve(r.doc, parent_path)
    IN  /\ IsArray(new)
        /\ r.doc = Put(doc, parent_path, new)
        /\ \A j \in 1..i : new.arr[j] = old[j]
        /\ removes =>
               /\ Len(new.arr) = n - 1
               /\ \A j \in (i + 2)..n : new.arr[j - 1] = old[j]
        /\ ~removes =>
               /\ Len(new.arr) = n
               /\ new.arr[i + 1] = value
               /\ \A j \in (i + 2)..n : new.arr[j] = old[j]

\* C13: a Remove or Replace that addresses index i of a sequence of length n,
\* as final or non-final token, succeeds only if 0 <= i < n; any i >= n, and
\* the append marker, is rejected with an error and the tree is unchanged.  A
\* successful Remove at final index i yields length n - 1 with the later
\* elements shifted left by one; a successful Replace keeps the length and
\* changes only position i.
C13_IndexBounds ==
    pc \in {"remove_value_at_path", "replace_value_at_path"} =>
        /\ IndicesWithin(TheDoc, ThePath, ret)
        /\ (ret.ok /\ OnIndex(TheDoc, ThePath)) =>
               RemovedOrSet(TheDoc, ThePath, TheOp.value,
                            pc = "remove_value_at_path", ret)

\* Remove at /0 on a sequence of two different elements has left the second
C13_Witness ==
    /\ pc = "remove_value_at_path"
    /\ TheDoc = Array(<<Number(1), String("s")>>)
    /\ ThePath = << <<"0">> >>
    /\ ret.ok
    /\ ret.doc = Array(<<String("s")>>)

\* Replace at index 1 of a sequence of one element, below a mapping key, has
\* failed
ReplacePastEnd ==
    /\ pc = "replace_value_at_path"
    /\ TheDoc = Object(<<"a">> :> Array(<<Number(1)>>))
    /\ ThePath = << <<"a">>, <<"1">> >>
    /\ ~ret.ok
    /\ ret.doc = TheDoc

\* r is a failure that leaves the tree as it was if the path meets a scalar
\* with tokens left
FailsOnScalar(doc, path, r) ==
    \A k \in 0..(Len(path) - 1) :
        IsLeaf(Resolve(doc, Prefix(path, k))) =>
            ~r.ok /\ r.err # "" /\ r.doc = doc

\* C14: for every mutator, if traversal reaches a scalar node (null, bool,
\* number, string) while at least one path token remains, the call fails with an
\* error: it neither silently does nothing nor overwrites the scalar.
C14_TypeMismatch ==
    InMutator => FailsOnScalar(TheDoc, ThePath, ret)

\* Replace at /a/0, where a is a string, has failed
C14_Witness ==
    /\ pc = "replace_value_at_path"
    /\ TheDoc = Object(<<"a">> :> String("s"))
    /\ ThePath = << <<"a">>, <<"0">> >>
    /\ ~ret.ok
    /\ ret.doc = TheDoc

\* Add into a root that is null, and Remove below a number in a sequence, have
\* failed
AddBelowNullFails ==
    /\ pc = "add_value_at_path"
    /\ TheDoc = Null
    /\ Len(ThePath) = 1
    /\ ~ret.ok

RemoveBelowNumberFails ==
    /\ pc = "remove_value_at_path"
    /\ TheDoc = Array(<<Number(1)>>)
    /\ ThePath = << <<"0">>, <<"a">> >>
    /\ ~ret.ok

\* C15: Add and Replace with the empty path replace the whole tree by the
\* value, whatever the kind of the old root; Remove with the empty path always
\* fails and leaves the tree unchanged.
C15_EmptyPathIsRoot ==
    (InMutator /\ ThePath = <<>>) =>
        /\ pc \in {"add_value_at_path", "replace_value_at_path"} =>
               ret.ok /\ ret.doc = TheOp.value
        /\ pc = "remove_value_at_path" => ~ret.ok /\ ret.doc = TheDoc

\* Remove with the empty path has failed on a mapping that holds a key
C15_Witness ==
    /\ pc = "remove_value_at_path"
    /\ ThePath = <<>>
    /\ IsObject(TheDoc)
    /\ TheDoc # Object(EmptyMap)
    /\ ~ret.ok
    /\ ret.doc = TheDoc

\* Add with the empty path has replaced a sequence, and Replace a string, by
\* the value
AddAtRootOfSequence ==
    /\ pc = "add_value_at_path"
    /\ ThePath = <<>>
    /\ IsArray(TheDoc)
    /\ TheDoc # Array(<<>>)
    /\ ret.ok
    /\ ret.doc = NewValue

ReplaceAtRootOfScalar ==
    /\ pc = "replace_value_at_path"
    /\ ThePath = <<>>
    /\ TheDoc = String("s")
    /\ ret.ok
    /\ ret.doc = NewValue

\* token k + 1 of the path is a key that the mapping the first k tokens
\* address does not hold
KeyAbsentAt(doc, path, k) ==
    /\ k < Len(path)
    /\ IsObject(Resolve(doc, Prefix(path, k)))
    /\ path[k + 1] \notin DOMAIN Resolve(doc, Prefix(path, k)).obj

\* r is a failure that leaves the tree as it was if a key of the path is
\* absent, and no mapping on the path has a key in r that it had not before
NoUpsert(doc, path, r) ==
    /\ (\E k \in 0..Len(path) : KeyAbsentAt(doc, path, k)) =>
           ~r.ok /\ r.doc = doc
    /\ NodeCount(r.doc) <= NodeCount(doc)
    /\ \A k \in 0..(Len(path) - 1) :
           LET old == Resolve(doc, Prefix(path, k))
               new == Resolve(r.doc, Prefix(path, k))
           IN  (IsObject(old) /\ IsObject(new)) =>
                   DOMAIN new.obj \subseteq DOMAIN old.obj

\* C16: a Replace or a Remove fails, leaving the tree unchanged, whenever the
\* final mapping key is absent or any non-final mapping key is absent; neither
\* operation ever creates a key or an intermediate mapping.
C16_NoUpsert ==
    pc \in {"remove_value_at_path", "replace_value_at_path"} =>
        NoUpsert(TheDoc, ThePath, ret)

\* Remove at /a/a has failed on a mapping whose key a holds a mapping
\* without a
C16_Witness ==
    /\ pc = "remove_value_at_path"
    /\ ThePath = << <<"a">>, <<"a">> >>
    /\ IsObject(TheDoc)
    /\ <<"a">> \in DOMAIN TheDoc.obj
    /\ IsObject(TheDoc.obj[<<"a">>])
    /\ <<"a">> \notin DOMAIN TheDoc.obj[<<"a">>].obj
    /\ ~ret.ok
    /\ ret.doc = TheDoc

\* Replace at /a/a has failed on a mapping that holds b and not a
ReplaceBelowAbsentKeyFails ==
    /\ pc = "replace_value_at_path"
    /\ ThePath = << <<"a">>, <<"a">> >>
    /\ IsObject(TheDoc)
    /\ DOMAIN TheDoc.obj = {<<"b">>}
    /\ ~ret.ok
    /\ ret.doc = TheDoc

\* the final token of the path is a key that the mapping it addresses lacks
FinalKeyAbsent(doc, path) ==
    /\ OnMapping(doc, path)
    /\ path[Len(path)] \notin DOMAIN Resolve(doc, Prefix(path, Len(path) - 1)).obj

\* C17 as claimed: when the final token of the path is a key that an existing
\* mapping does not hold, set (Replace) as well as insert (Add) creates that
\* key with the given value.
C17_SetCreatesFinalKey ==
    (pc \in {"add_value_at_path", "replace_value_at_path"}
        /\ FinalKeyAbsent(TheDoc, ThePath)) =>
        /\ ret.ok
        /\ Resolve(ret.doc, ThePath) = TheOp.value

\* r is what Add (adds) or Replace has to return for a final key the mapping
\* lacks
FinalKeyCreatedByAddOnly(doc, path, value, adds, r) ==
    LET parent_path == Prefix(path, Len(path) - 1)
        parent == Resolve(doc, Prefix(path, Len(path) - 1))
    IN  /\ adds =>
               /\ r.ok
               /\ r.doc = Put(doc, parent_path,
                              Object(MapInsert(parent.obj, path[Len(path)], value)))
               /\ Resolve(r.doc, path) = value
        /\ ~adds => ~r.ok /\ r.doc = doc

\* C17 amended: when the final token of the path is a key that an existing
\* mapping does not hold, insert (Add) creates that key with the given value
\* and keeps every other key; set (Replace) fails and leaves the tree
\* unchanged.
C17_OnlyInsertCreatesFinalKey ==
    (pc \in {"add_value_at_path", "replace_value_at_path"}
        /\ FinalKeyAbsent(TheDoc, ThePath)) =>
        FinalKeyCreatedByAddOnly(TheDoc, ThePath, TheOp.value,
                                 pc = "add_value_at_path", ret)

\* Replace at /a has failed on a mapping that holds b and not a
C17_Witness ==
    /\ pc = "replace_value_at_path"
    /\ ThePath = << <<"a">> >>
    /\ IsObject(TheDoc)
    /\ DOMAIN TheDoc.obj = {<<"b">>}
    /\ ~ret.ok
    /\ ret.doc = TheDoc

\* Add at /a has created a in a mapping that holds b
AddCreatesFinalKey ==
    /\ pc = "add_value_at_path"
    /\ ThePath = << <<"a">> >>
    /\ IsObject(TheDoc)
    /\ DOMAIN TheDoc.obj = {<<"b">>}
    /\ ret.ok
    /\ DOMAIN ret.doc.obj = {<<"a">>, <<"b">>}
    /\ ret.doc.obj[<<"a">>] = NewValue
    /\ ret.doc.obj[<<"b">>] = TheDoc.obj[<<"b">>]

\* r is what an Add of value at a final key the mapping holds has to return
Upserted(doc, path, value, r) ==
    LET parent_path == Prefix(path, Len(path) - 1)
        old == Resolve(doc, Prefix(path, Len(path) - 1)).obj
        new == Resolve(r.doc, Prefix(path, Len(path) - 1))
    IN  /\ r.ok
        /\ IsObject(new)
        /\ DOMAIN new.obj = DOMAIN old
        /\ new.obj[path[Len(path)]] = value
        /\ \A k \in DOMAIN old \ {path[Len(path)]} : new.obj[k] = old[k]
        /\ r.doc = Put(doc, parent_path, new)

\* C18: an Add whose final token is a key already present in the addressed
\* mapping succeeds and replaces that key's value with the new value, keeping
\* the key set of the mapping and every other key's value unchanged.
C18_AddIsUpsert ==
    (pc = "add_value_at_path"
        /\ OnMapping(TheDoc, ThePath) /\ ~FinalKeyAbsent(TheDoc, ThePath)) =>
        Upserted(TheDoc, ThePath, TheOp.value, ret)

\* Add at /a has overwritten a in a mapping that holds a and b
C18_Witness ==
    /\ pc = "add_value_at_path"
    /\ ThePath = << <<"a">> >>
    /\ IsObject(TheDoc)
    /\ DOMAIN TheDoc.obj = {<<"a">>, <<"b">>}
    /\ TheDoc.obj[<<"a">>] # NewValue
    /\ ret.ok
    /\ DOMAIN ret.doc.obj = {<<"a">>, <<"b">>}
    /\ ret.doc.obj[<<"a">>] = NewValue
    /\ ret.doc.obj[<<"b">>] = TheDoc.obj[<<"b">>]

\* token k of the path is '-' and is not the last one
MarkerAt(path, k) == k < Len(path) /\ path[k] = <<"-">>

\* C19 as claimed: any operation whose path contains the append marker '-' at
\* a non-final position is rejected with an error and leaves the tree
\* unchanged.
C19_MarkerOnlyFinal ==
    (InMutator /\ \E k \in 1..Len(ThePath) : MarkerAt(ThePath, k)) =>
        ~ret.ok /\ ret.doc = TheDoc

\* r is a failure that leaves the tree as it was if a '-' that is not the
\* last token is applied to a sequence; if it is applied to a mapping that
\* lacks the key '-', an Add (adds) has created it
MarkerRejectedInSequence(doc, path, value, adds, r) ==
    \A k \in 1..Len(path) :
        MarkerAt(path, k) =>
            LET node == Resolve(doc, Prefix(path, k - 1)) IN
            /\ IsArray(node) => ~r.ok /\ r.err # "" /\ r.doc = doc
            /\ (IsObject(node) /\ path[k] \notin DOMAIN node.obj /\ adds) =>
                   /\ r.ok
                   /\ IsObject(Resolve(r.doc, Prefix(path, k)))
                   /\ Resolve(r.doc, path) = value

\* C19 amended: an operation whose path has '-' at a non-final position is
\* rejected with an error, and leaves the tree unchanged, whenever that token
\* is applied to a sequence; applied to a mapping, '-' is a key like any
\* other, and an Add through a mapping that lacks it creates it.
C19_MarkerOnlyFinalInSequence ==
    InMutator =>
        MarkerRejectedInSequence(TheDoc, ThePath, TheOp.value,
                                 pc = "add_value_at_path", ret)

\* Add at /a/-/a has failed on {a: []}
C19_Witness ==
    /\ pc = "add_value_at_path"
    /\ TheDoc = Object(<<"a">> :> Array(<<>>))
    /\ ThePath = << <<"a">>, <<"-">>, <<"a">> >>
    /\ ~ret.ok
    /\ ret.doc = TheDoc

\* Add at /-/a on the empty mapping has given {-: {a: value}}
AddThroughMarkerKey ==
    /\ pc = "add_value_at_path"
    /\ TheDoc = Object(EmptyMap)
    /\ ThePath = << <<"-">>, <<"a">> >>
    /\ ret.ok
    /\ ret.doc = Object(<<"-">> :> Object(<<"a">> :> NewValue))

-----------------------------------------------------------------------------
(* Properties of the Diff Engine *)

\* C20: for every pair of trees, including pairs of different kinds at the
\* root, diff returns an operation sequence without error; when the roots are
\* incomparable the result is a single Replace at the root path carrying the
\* target.
C20_DiffIsTotal ==
    pc = "yaml_diff" =>
        /\ ~IsErrorPayload(ret)
        /\ patch_from_str(ret).ok
        /\ (Decodes(yaml) /\ Decodes(edited)) =>
               LET base == yaml.yaml
                   target == edited.yaml
               IN  /\ ret = patch_to_string(json_diff(base, target))
                   /\ (ret = JsonArrayText(<<>>)) <=> (base = target)
                   /\ (DOMAIN base # DOMAIN target
                           \/ (IsScalar(base) /\ base # target)) =>
                          ret = JsonArrayText(<<ReplaceOperation(<<>>, target)>>)

\* a mapping has been diffed against a sequence
C20_Witness ==
    /\ pc = "yaml_diff"
    /\ Decodes(yaml) /\ Decodes(edited)
    /\ IsObject(yaml.yaml) /\ yaml.yaml # Object(EmptyMap)
    /\ IsArray(edited.yaml) /\ edited.yaml # Array(<<>>)
    /\ ret = JsonArrayText(<<ReplaceOperation(<<>>, edited.yaml)>>)

-----------------------------------------------------------------------------
(* Sequences that lose elements.  The base is a sequence of scalars at the  *)
(* root; it is either diffed against a shorter or equal sequence and the    *)
(* diff applied, or patched with two hand-written Removes.                  *)

\* largest number of elements of a sequence drawn as input
MaxSeqLen == 4

SeqScalars == {Number(0), Number(1), Number(2), Number(3)}

SeqsOfLen(n) == [1..n -> SeqScalars]

SeqDocs == {Array(s) : s \in UNION {SeqsOfLen(n) : n \in 0..MaxSeqLen}}

SeqTargets == {Array(s) : s \in UNION {SeqsOfLen(n) : n \in 0..(MaxSeqLen - 2)}}

IndexPath(i) == <<"/">> \o usize_to_string(i)

RemovalPatches ==
    {<<RemoveOperation(IndexPath(i)), RemoveOperation(IndexPath(j))>> :
        <<i, j>> \in {ij \in (0..(MaxSeqLen - 1)) \X (0..(MaxSeqLen - 1)) :
                          ij[1] # ij[2]}}

InitSeq ==
    /\ yaml \in {YamlText(d, "block") : d \in SeqDocs}
    /\ \/ /\ edited \in {YamlText(d, "block") : d \in SeqTargets}
          /\ patch = JsonArrayText(<<>>)
       \/ /\ edited = yaml
          /\ patch \in {JsonArrayText(ops) : ops \in RemovalPatches}
    /\ pc = "start"
    /\ ret = NoReturn
    /\ frame = NoFrame

NextSeq == YamlDiff \/ ApplyDiff \/ ApplyJsonPatch

SpecSeq == InitSeq /\ [][NextSeq]_vars

-----------------------------------------------------------------------------
(* Properties of sequence removal *)

\* the sequence s without the elements at the 0-based positions in skip
RECURSIVE WithoutFrom(_, _, _)
WithoutFrom(s, skip, k) ==
    IF k > Len(s) THEN <<>>
    ELSE (IF (k - 1) \in skip THEN <<>> ELSE <<s[k]>>)
             \o WithoutFrom(s, skip, k + 1)

Without(s, skip) == WithoutFrom(s, skip, 1)

IsRemove(op) == op.op = String("remove")

RemovesOf(ops) == SelectSeq(ops, IsRemove)

\* Remove n-1, Remove n-2, ..., Remove m
TrailingRemoves(n, m) == [k \in 1..(n - m) |-> RemoveOperation(IndexPath(n - k))]

IndexOf(op) == parse_usize(Tail(op.path.str))

\* r is what two Removes at the literal indices i then j give on base
TwoRemovals(base, i, j, r) ==
    LET n == Len(base) IN
    (i < n /\ j < n) =>
        IF i > j
        THEN r.ok /\ r.value = Array(Without(base, {i, j}))
        ELSE IF j = n - 1 THEN ~r.ok
        ELSE /\ r.ok
             /\ r.value = Array(Without(base, {i, j + 1}))
             /\ Array(Without([k \in 1..n |-> k - 1], {i, j + 1}))
                    # Array(Without([k \in 1..n |-> k - 1], {i, j}))

\* C21: when the base sequence is longer than the target, the Removes of the
\* diff are those of the surplus trailing elements in descending index order
\* and applying the diff gives the target; two Removes applied in descending
\* index order delete exactly the elements that were at those indices
\* (removing 2 then 1 from [0, 1, 2, 3] gives [0, 3]); the same literal
\* indices in ascending order fail or delete the element one place after the
\* second index instead.
C21_RemovalOrdering ==
    /\ pc = "yaml_diff" =>
           LET n == Len(yaml.yaml.arr)
               m == Len(edited.yaml.arr)
           IN  n > m => RemovesOf(ret.json) = TrailingRemoves(n, m)
    /\ pc = "validate::apply_patch" => ret = yaml_to_string(edited.yaml)
    /\ (pc = "apply_json_patch" /\ Len(patch.json) = 2) =>
           TwoRemovals(yaml.yaml.arr, IndexOf(patch.json[1]),
                       IndexOf(patch.json[2]), ret)

\* 2 then 1 have been removed from [0, 1, 2, 3], leaving [0, 3]
C21_Witness ==
    /\ pc = "apply_json_patch"
    /\ yaml.yaml = Array(<<Number(0), Number(1), Number(2), Number(3)>>)
    /\ patch = JsonArrayText(<<RemoveOperation(<<"/", "2">>),
                               RemoveOperation(<<"/", "1">>)>>)
    /\ ret.ok /\ ret.value = Array(<<Number(0), Number(3)>>)

\* 1 then 2 have been removed from [0, 1, 2, 3], leaving [0, 2]
RemovedAscending ==
    /\ pc = "apply_json_patch"
    /\ yaml.yaml = Array(<<Number(0), Number(1), Number(2), Number(3)>>)
    /\ patch = JsonArrayText(<<RemoveOperation(<<"/", "1">>),
                               RemoveOperation(<<"/", "2">>)>>)
    /\ ret.ok /\ ret.value = Array(<<Number(0), Number(2)>>)

\* the diff of a sequence against one two elements shorter has been applied
DiffRemovedTwo ==
    /\ pc = "validate::apply_patch"
    /\ Len(yaml.yaml.arr) = Len(edited.yaml.arr) + 2
    /\ Len(RemovesOf(patch.json)) = 2
    /\ ret = yaml_to_string(edited.yaml)

-----------------------------------------------------------------------------
(* Properties of the wire form of a path *)

\* the operations of the patch that replace the value of a key of the root
\* mapping, the key being the unescaped segment of the operation's path
RootReplaces(doc, ops) ==
    {i \in 1..Len(ops) :
        /\ ops[i].op = String("replace")
        /\ Len(split(ops[i].path.str)) = 2
        /\ unescape(split(ops[i].path.str)[2]) \in DOMAIN doc.obj}

\* text is a document in which every such operation has set its key
SegmentsUnescaped(doc, ops, text) ==
    \A i \in RootReplaces(doc, ops) :
        /\ Decodes(text)
        /\ IsObject(text.yaml)
        /\ unescape(split(ops[i].path.str)[2]) \in DOMAIN text.yaml.obj
        /\ text.yaml.obj[unescape(split(ops[i].path.str)[2])] = ops[i].value

\* C22: each segment of a wire path is unescaped (~1 to '/', ~0 to '~')
\* before it is used as a mapping key: an operation at /a~1b on a mapping
\* with the key "a/b" addresses that key, whichever applier applies it.
C22_SegmentsUnescaped ==
    (pc \in {"validate::apply_patch", "diff::apply_patch"}
        /\ Decodes(yaml) /\ IsObject(yaml.yaml))
        => SegmentsUnescaped(yaml.yaml, patch.json, ret)

\* the applier of diff.rs does so
DiffApplyUnescapes ==
    (pc = "diff::apply_patch" /\ Decodes(yaml) /\ IsObject(yaml.yaml))
        => SegmentsUnescaped(yaml.yaml, patch.json, ret)

\* the applier of validate.rs has been given a Replace at /~1~0 on a mapping
\* with the key "/~" and has rejected the patch
ValidateApplyEscapedFails ==
    /\ pc = "validate::apply_patch"
    /\ Decodes(yaml) /\ IsObject(yaml.yaml)
    /\ <<"/", "~">> \in DOMAIN yaml.yaml.obj
    /\ \E v \in Scalars :
           patch = JsonArrayText(<<ReplaceOperation(<<"/", "~", "1", "~", "0">>, v)>>)
    /\ ret = single_error("Failed to apply patch")

\* the applier of diff.rs has been given the same and has set the key
DiffApplyEscapedSets ==
    /\ pc = "diff::apply_patch"
    /\ Decodes(yaml) /\ IsObject(yaml.yaml)
    /\ <<"/", "~">> \in DOMAIN yaml.yaml.obj
    /\ \E v \in Scalars :
           /\ patch = JsonArrayText(<<ReplaceOperation(<<"/", "~", "1", "~", "0">>, v)>>)
           /\ Decodes(ret)
           /\ ret.yaml.obj[<<"/", "~">>] = v

-----------------------------------------------------------------------------
(* Properties of the operations the applier does not know *)

IsUnsupported(op) ==
    IsString(op.op) /\ op.op.str \notin {"add", "remove", "replace"}

\* C23: apply_patch on a document that decodes, with a patch that parses
\* and holds an operation whose op is none of add, remove and replace,
\* returns a validation result with success = false and a message; what it
\* returns is no document, so no operation of the patch shows in it.
C23_UnsupportedOperation ==
    (pc = "validate::apply_patch" /\ Decodes(yaml) /\ vec_from_str(patch).ok
        /\ \E i \in 1..Len(patch.json) : IsUnsupported(patch.json[i]))
        => /\ IsErrorPayload(ret)
           /\ ret.success = FALSE
           /\ ret.message # ""
           /\ ~Decodes(ret)

\* an Add that applies, followed by a "move", has been rejected
C23_Witness ==
    /\ pc = "validate::apply_patch"
    /\ yaml = YamlText(Object(EmptyMap), "flow")
    /\ patch = JsonArrayText(<<AddOperation(<<"/", "a">>, NewValue),
                               PatchOp(String("move"), String(<<"/", "a">>), NewValue)>>)
    /\ ret = single_error("Failed to apply patch")

-----------------------------------------------------------------------------
(* Properties of the Diff Engine at a changed node *)

\* the nodes differ in kind, or are scalars with different values
KindOrScalarChange(left, right) ==
    \/ DOMAIN left # DOMAIN right
    \/ IsScalar(left) /\ left # right

\* the wire path q lies strictly below the wire path p
Below(q, p) ==
    /\ Len(q) > Len(p)
    /\ SubSeq(q, 1, Len(p)) = p
    /\ q[Len(p) + 1] = "/"

\* ops has exactly one operation at path, the Replace carrying right, and
\* no operation below path
OneReplaceAt(path, right, ops) ==
    /\ Cardinality({i \in 1..Len(ops) : ops[i].path = String(path)}) = 1
    /\ \E i \in 1..Len(ops) : ops[i] = ReplaceOperation(path, right)
    /\ \A i \in 1..Len(ops) : ~Below(ops[i].path.str, path)

\* the same at every path the diff compares the two trees at: the root, a
\* key both mappings have, an index both sequences have
RECURSIVE ReplacedWhereChanged(_, _, _, _)
ReplacedWhereChanged(left, right, path, ops) ==
    IF KindOrScalarChange(left, right) THEN OneReplaceAt(path, right, ops)
    ELSE IF IsObject(left) THEN
        \A k \in DOMAIN left.obj \cap DOMAIN right.obj :
            ReplacedWhereChanged(left.obj[k], right.obj[k],
                                 child_path(path, k), ops)
    ELSE IF IsArray(left) THEN
        \A i \in 1..Len(left.arr) :
            (i <= Len(right.arr)
                /\ KindOrScalarChange(left.arr[i], right.arr[i]))
            => OneReplaceAt(child_path(path, usize_to_string(i - 1)),
                            right.arr[i], ops)
    ELSE TRUE

NestedScalarReplaced ==
    /\ pc = "yaml_diff"
    /\ Decodes(yaml) /\ Decodes(edited)
    /\ ret = JsonArrayText(
           <<ReplaceOperation(<<"/", "a", "/", "a">>, Number(1))>>)

-----------------------------------------------------------------------------
(* Properties of the Conflict Detector as the comment in its body reads *)

\* C25: detect_conflicts reports a conflict when the diff of base and edited
\* holds several Replace operations with differing values; a diff with a
\* single Replace is not reported as a conflict.
C25_ConflictNeedsSeveral ==
    (pc = "detect_conflicts" /\ Decodes(yaml) /\ Decodes(edited)) =>
        LET replaces == ReplacesOf(patch.json) IN
        /\ Len(replaces) = 1 => ~ret.has_conflict
        /\ (\E i, j \in 1..Len(replaces) :
                i # j /\ replaces[i].value # replaces[j].value)
               => ret.has_conflict

\* the scalar under one key has changed, the diff is one Replace, and a
\* conflict has been reported
SingleReplaceIsConflict ==
    /\ pc = "detect_conflicts"
    /\ yaml = YamlText(Object(<<"a">> :> Number(1)), "block")
    /\ edited = YamlText(Object(<<"a">> :> String("s")), "block")
    /\ patch = JsonArrayText(<<ReplaceOperation(<<"/", "a">>, String("s"))>>)
    /\ ret.has_conflict

\* two Replaces with different values have been reported as a conflict
SeveralReplacesAreConflict ==
    /\ pc = "detect_conflicts"
    /\ Decodes(yaml) /\ Decodes(edited)
    /\ Len(ReplacesOf(patch.json)) = 2
    /\ ReplacesOf(patch.json)[1].value # ReplacesOf(patch.json)[2].value
    /\ ret.has_conflict

-----------------------------------------------------------------------------
(* Frame of the mutators *)

\* the index a final token of an Add names in a sequence of n elements
AddIndex(token, n) == IF token = <<"-">> THEN n ELSE parse_usize(token)

\* new is old but for what lies on path or below it: at each mapping on the
\* way every other key is there as before with its value, at each sequence
\* on the way every other element is as before, and in the sequence the
\* final token addresses the elements after the index have moved one place
\* up (Add) or down (Remove)
RECURSIVE Frame(_, _, _, _)
Frame(old, new, path, op_type) ==
    IF path = <<>> THEN TRUE
    ELSE IF IsObject(old) THEN
        /\ IsObject(new)
        /\ DOMAIN new.obj \ {path[1]} = DOMAIN old.obj \ {path[1]}
        /\ \A k \in DOMAIN old.obj \ {path[1]} : new.obj[k] = old.obj[k]
        /\ (Len(path) > 1 /\ path[1] \in DOMAIN old.obj) =>
               /\ path[1] \in DOMAIN new.obj
               /\ Frame(old.obj[path[1]], new.obj[path[1]], Tail(path), op_type)
    ELSE IF IsArray(old) THEN
        LET n == Len(old.arr)
            i == AddIndex(path[1], n)
        IN  /\ IsArray(new)
            /\ \A j \in 1..n : j < i + 1 => (j <= Len(new.arr) /\ new.arr[j] = old.arr[j])
            /\ IF Len(path) > 1 THEN
                   /\ Len(new.arr) = n
                   /\ \A j \in 1..n : j > i + 1 => new.arr[j] = old.arr[j]
                   /\ Frame(old.arr[i + 1], new.arr[i + 1], Tail(path), op_type)
               ELSE IF op_type = "add" THEN
                   /\ Len(new.arr) = n + 1
                   /\ \A j \in 1..n : j >= i + 1 => new.arr[j + 1] = old.arr[j]
               ELSE IF op_type = "remove" THEN
                   /\ Len(new.arr) = n - 1
                   /\ \A j \in 1..n : j > i + 1 => new.arr[j - 1] = old.arr[j]
               ELSE
                   /\ Len(new.arr) = n
                   /\ \A j \in 1..n : j > i + 1 => new.arr[j] = old.arr[j]
    ELSE FALSE

\* C27: after a successful Add, Remove or Replace at path p every node whose
\* path is neither a prefix of p nor below p is unchanged, except that the
\* siblings after the affected index of a sequence are shifted by exactly one
\* position by an Add or a Remove; no other key is created, deleted or
\* modified.
C27_Frame ==
    (InMutator /\ ret.ok) =>
        Frame(TheDoc, ret.doc, ThePath, TheOp.op.str)

\* the first of two different elements has been removed, the second has
\* moved down
C27_Witness ==
    /\ pc = "remove_value_at_path"
    /\ ThePath = << <<"0">> >>
    /\ IsArray(TheDoc) /\ Len(TheDoc.arr) = 2 /\ TheDoc.arr[1] # TheDoc.arr[2]
    /\ ret.ok /\ ret.doc = Array(<<TheDoc.arr[2]>>)

\* a key of a mapping of two has been removed, the other is as it was
RemoveBesideKey ==
    /\ pc = "remove_value_at_path"
    /\ ThePath = << <<"a">> >>
    /\ IsObject(TheDoc) /\ DOMAIN TheDoc.obj = {<<"a">>, <<"b">>}
    /\ ret.ok
    /\ ret.doc = Object(<<"b">> :> TheDoc.obj[<<"b">>])

\* a value has been inserted before two elements, both have moved up
AddShiftsUp ==
    /\ pc = "add_value_at_path"
    /\ ThePath = << <<"0">> >>
    /\ IsArray(TheDoc) /\ Len(TheDoc.arr) = 2 /\ TheDoc.arr[1] # TheDoc.arr[2]
    /\ ret.ok /\ ret.doc = Array(<<NewValue, TheDoc.arr[1], TheDoc.arr[2]>>)

\* an Add has created a mapping on its way and left the other key alone
AddVivifiesBesideKey ==
    /\ pc = "add_value_at_path"
    /\ Len(ThePath) = 2
    /\ IsObject(TheDoc) /\ ThePath[1] \notin DOMAIN TheDoc.obj
    /\ TheDoc.obj # EmptyMap
    /\ ret.ok

-----------------------------------------------------------------------------
(* An Add followed by a Remove at the same path.  The caller holds a        *)
(* document and the patch [Add(p, v), Remove(p)] and has it applied.        *)

UndoPatches ==
    {<<AddOperation(p, NewValue), RemoveOperation(p)>> : p \in NodePointers}

InitUndo ==
    /\ yaml \in {YamlText(t, "block") : t \in PathDocs}
    /\ edited = yaml
    /\ patch \in {JsonArrayText(ops) : ops \in UndoPatches}
    /\ pc = "start"
    /\ ret = NoReturn
    /\ frame = NoFrame

NextUndo == ApplyPatch \/ ApplyJsonPatch

SpecUndo == InitUndo /\ [][NextUndo]_vars

\* the parent of path is a node of doc, and the final token is a key its
\* mapping lacks or an index from 0 to the length of its sequence
ParentTakesFinal(doc, path) ==
    /\ path # <<>>
    /\ LET parent == Resolve(doc, Prefix(path, Len(path) - 1))
           final == path[Len(path)]
       IN  \/ IsObject(parent) /\ final \notin DOMAIN parent.obj
           \/ /\ IsArray(parent)
              /\ final # <<"-">>
              /\ parse_usize(final) >= 0
              /\ parse_usize(final) <= Len(parent.arr)

\* a mapping on the way lacks a token of the path before the final one
Vivifies(doc, path) == \E n \in 0..Len(path) : LeavesAt(doc, path, n)

\* what the two appliers have to return on [Add(path, v), Remove(path)]
AddThenRemove(doc, path, at, r) ==
    /\ ParentTakesFinal(doc, path) =>
           IF at = "apply_json_patch"
           THEN r.ok /\ r.value = doc /\ r.doc = doc
           ELSE r = yaml_to_string(doc)
    /\ Vivifies(doc, path) =>
           IF at = "apply_json_patch"
           THEN /\ r.ok
                /\ r.value # doc
                /\ Kept(doc, r.value)
                /\ Resolve(r.value, Prefix(path, Len(path) - 1)) = Object(EmptyMap)
           ELSE Decodes(r) /\ r.yaml # doc
    /\ (OnSequence(doc, path) /\ path[Len(path)] = <<"-">>) =>
           IF at = "apply_json_patch"
           THEN ~r.ok /\ r.at = 1 /\ r.doc = doc
           ELSE r = single_error("Failed to apply patch")

\* C28: for every tree T and path p whose parent node is in T and whose final
\* token is a key absent from that mapping or an index i of that sequence
\* with 0 <= i <= len, the patch [Add(p, v), Remove(p)] succeeds and gives a
\* tree equal to T; when the Add creates intermediate mappings the patch
\* succeeds and leaves them in the tree, and when the final token is the
\* append marker of a sequence the patch fails at the Remove.
C28_AddThenRemove ==
    pc # "start" =>
        AddThenRemove(yaml.yaml, Tail(split(patch.json[1].path.str)), pc, ret)

\* a value has been inserted before the element of a sequence under a key and
\* removed again
C28_Witness ==
    /\ pc = "apply_json_patch"
    /\ IsObject(yaml.yaml) /\ <<"a">> \in DOMAIN yaml.yaml.obj
    /\ IsArray(yaml.yaml.obj[<<"a">>]) /\ Len(yaml.yaml.obj[<<"a">>].arr) = 1
    /\ patch.json[1].path.str = <<"/", "a", "/", "0">>
    /\ ret.ok /\ ret.value = yaml.yaml

\* an Add below an absent key and its Remove have left an empty mapping
AddThenRemoveLeavesMapping ==
    /\ pc = "apply_json_patch"
    /\ yaml.yaml = Object(<<"b">> :> Null)
    /\ patch.json[1].path.str = <<"/", "a", "/", "0">>
    /\ ret.ok
    /\ ret.value = Object(<<"a">> :> Object(EmptyMap) @@ <<"b">> :> Null)

\* an Add at the append marker has applied and its Remove has failed
RemoveAtMarkerFails ==
    /\ pc = "apply_json_patch"
    /\ yaml.yaml = Array(<<Null>>)
    /\ patch.json[1].path.str = <<"/", "-">>
    /\ ~ret.ok /\ ret.at = 1

-----------------------------------------------------------------------------
(* md_transform.rs: md_headings_to_yaml.  A text is the sequence of its     *)
(* lines, a line the sequence of its characters.  Sections live in          *)
(* Vec<Section>; a *mut Section is the place of the section (the indices    *)
(* from doc.sections down) together with the length its Vec had when the   *)
(* pointer was taken: a later push onto that Vec may move its elements.     *)

\* largest number of lines of a Markdown text drawn as input
MaxLines == 5

\* str::trim_start, str::trim_end and str::trim of one line
RECURSIVE trim_start(_)
trim_start(s) ==
    IF s # <<>> /\ Head(s) = " " THEN trim_start(Tail(s)) ELSE s

RECURSIVE trim_end(_)
trim_end(s) ==
    IF s # <<>> /\ s[Len(s)] = " " THEN trim_end(SubSeq(s, 1, Len(s) - 1)) ELSE s

trim(s) == trim_end(trim_start(s))

\* str::trim of a text: blank lines at either end go, and so do the blanks
\* before its first and after its last character
RECURSIVE text_trim_start(_)
text_trim_start(text) ==
    IF text = <<>> THEN <<>>
    ELSE IF trim(Head(text)) = <<>> THEN text_trim_start(Tail(text))
    ELSE <<trim_start(Head(text))>> \o Tail(text)

RECURSIVE text_trim_end(_)
text_trim_end(text) ==
    IF text = <<>> THEN <<>>
    ELSE IF trim(text[Len(text)]) = <<>>
    THEN text_trim_end(SubSeq(text, 1, Len(text) - 1))
    ELSE SubSeq(text, 1, Len(text) - 1) \o <<trim_end(text[Len(text)])>>

text_trim(text) == text_trim_end(text_trim_start(text))

\* str::starts_with
starts_with(s, prefix) ==
    Len(s) >= Len(prefix) /\ SubSeq(s, 1, Len(prefix)) = prefix

\* line[n..]
from(s, n) == SubSeq(s, n + 1, Len(s))

\* the lines after the closing "---" of the front matter, none if it is
\* never closed
RECURSIVE after_frontmatter(_)
after_frontmatter(lines) ==
    IF lines = <<>> THEN <<>>
    ELSE IF trim(Head(lines)) = <<"-", "-", "-">> THEN Tail(lines)
    ELSE after_frontmatter(Tail(lines))

remove_frontmatter(md) ==
    IF md # <<>> /\ trim(Head(md)) = <<"-", "-", "-">>
    THEN after_frontmatter(Tail(md))
    ELSE md

\* Option
None == [none |-> TRUE]
Some(x) == [some |-> x]

\* Section { title, content: String::new(), sections: Vec::new() }
Section(title) == [title |-> title, content |-> <<>>, sections |-> <<>>]

\* Document::default()
DocumentDefault == [title |-> <<>>, content |-> <<>>, sections |-> <<>>]

\* `as *mut Section` of the element of a Vec that has len elements
Pointer(at, len) == [at |-> at, len |-> len, gone |-> FALSE]

\* a pointer into memory that holds no section of the document
Dangling(at, len) == [at |-> at, len |-> len, gone |-> TRUE]

RECURSIVE GetSection(_, _)
GetSection(sections, at) ==
    IF Len(at) = 1 THEN sections[at[1]]
    ELSE GetSection(sections[at[1]].sections, Tail(at))

RECURSIVE SetSection(_, _, _)
SetSection(sections, at, section) ==
    IF Len(at) = 1 THEN [sections EXCEPT ![at[1]] = section]
    ELSE [sections EXCEPT ![at[1]] =
             [sections[at[1]] EXCEPT
                 !.sections = SetSection(sections[at[1]].sections, Tail(at), section)]]

\* the Vec the pointer points into
VecOf(doc, ptr) ==
    IF Len(ptr.at) = 1 THEN doc.sections
    ELSE GetSection(doc.sections, SubSeq(ptr.at, 1, Len(ptr.at) - 1)).sections

\* the Vec has been pushed onto since the pointer was taken
Moved(doc, ptr) == ptr.gone \/ Len(VecOf(doc, ptr)) # ptr.len

\* what a write through the pointer can do: reach the section, or, when the
\* section has moved, be lost in the memory it has left
Landings(doc, ptr) == IF Moved(doc, ptr) THEN {TRUE, FALSE} ELSE {TRUE}

\* (*ptr).content = content
write_content(doc, ptr, content, landed) ==
    IF ptr.gone \/ ~landed THEN doc
    ELSE [doc EXCEPT !.sections =
             SetSection(doc.sections, ptr.at,
                        [GetSection(doc.sections, ptr.at) EXCEPT !.content = content])]

\* (*ptr).sections.push(section)
push_section(doc, ptr, section, landed) ==
    IF ptr.gone \/ ~landed THEN doc
    ELSE [doc EXCEPT !.sections =
             SetSection(doc.sections, ptr.at,
                        [GetSection(doc.sections, ptr.at) EXCEPT
                            !.sections = Append(@, section)])]

\* the locals when the loop is entered
enter(md) ==
    [md |-> md,
     trimmed_md |-> text_trim(remove_frontmatter(md)),
     lines |-> text_trim(remove_frontmatter(md)),
     doc |-> DocumentDefault,
     current_title |-> None,
     current_section |-> None,
     section_stack |-> <<>>,
     content_lines |-> <<>>,
     i |-> 0,
     moved |-> FALSE]

\* if !content_lines.is_empty() { .. } of the "## " branch
save_content(f, landed) ==
    IF f.content_lines = <<>> THEN f
    ELSE IF f.current_section # None THEN
        [f EXCEPT !.doc = write_content(f.doc, f.current_section.some,
                                        text_trim(f.content_lines), landed),
                  !.moved = @ \/ Moved(f.doc, f.current_section.some),
                  !.content_lines = <<>>]
    ELSE [f EXCEPT !.doc = [f.doc EXCEPT !.content = text_trim(f.content_lines)],
                   !.content_lines = <<>>]

\* if !content_lines.is_empty() { .. } of the "### " branch: no else
save_content_h3(f, landed) ==
    IF f.content_lines = <<>> THEN f
    ELSE IF f.current_section # None THEN
        [f EXCEPT !.doc = write_content(f.doc, f.current_section.some,
                                        text_trim(f.content_lines), landed),
                  !.moved = @ \/ Moved(f.doc, f.current_section.some),
                  !.content_lines = <<>>]
    ELSE [f EXCEPT !.content_lines = <<>>]

RECURSIVE adjust_stack(_, _)

\* the stack left as it is
adjust_stack_keeping(section_stack, level) == section_stack

\* while let Some((_, level)) = section_stack.last() { pop if *level >= n }
adjust_stack(section_stack, level) ==
    IF section_stack # <<>> /\ section_stack[Len(section_stack)][2] >= level
    THEN adjust_stack(SubSeq(section_stack, 1, Len(section_stack) - 1), level)
    ELSE section_stack

\* push_to_root with the new section put in front of the others
push_to_root_front(f, title, level) ==
    LET new_ptr == Pointer(<<1>>, Len(f.doc.sections) + 1) IN
    [f EXCEPT !.doc = [f.doc EXCEPT !.sections = <<Section(title)>> \o @],
              !.section_stack = Append(@, <<new_ptr, level>>),
              !.current_section = Some(new_ptr)]

\* doc.sections.push(new_section); new_ptr = last_mut(); stack and current
push_to_root(f, title, level) ==
    LET new_ptr == Pointer(<<Len(f.doc.sections) + 1>>, Len(f.doc.sections) + 1) IN
    [f EXCEPT !.doc = [f.doc EXCEPT !.sections = Append(@, Section(title))],
              !.section_stack = Append(@, <<new_ptr, level>>),
              !.current_section = Some(new_ptr)]

\* (*(*parent_ptr)).sections.push(new_section); new_ptr = last_mut(); ..
push_to_parent(f, parent_ptr, title, landed) ==
    LET reached == ~parent_ptr.gone /\ landed
        n == IF parent_ptr.gone THEN 0
             ELSE Len(GetSection(f.doc.sections, parent_ptr.at).sections)
        new_ptr == IF reached THEN Pointer(Append(parent_ptr.at, n + 1), n + 1)
                   ELSE Dangling(Append(parent_ptr.at, n + 1), n + 1)
    IN  [f EXCEPT !.doc = push_section(f.doc, parent_ptr, Section(title), landed),
                  !.moved = @ \/ Moved(f.doc, parent_ptr),
                  !.section_stack = Append(@, <<new_ptr, 3>>),
                  !.current_section = Some(new_ptr)]

\* the "# " branch
title_line(f, line) ==
    [f EXCEPT !.current_title = Some(trim(from(line, 2))),
              !.doc = [f.doc EXCEPT !.title = trim(from(line, 2))]]

\* the "## " branch with the content of the section before saved after the
\* new section has been pushed
h2_line_saving_late(f, line, landed) ==
    LET popped == [f EXCEPT !.section_stack = adjust_stack(@, 2)]
        pushed == push_to_root(popped, trim(from(line, 3)), 2)
    IN  IF f.content_lines = <<>> THEN pushed
        ELSE IF f.current_section # None THEN
            [pushed EXCEPT
                !.doc = write_content(pushed.doc, f.current_section.some,
                                      text_trim(f.content_lines), landed),
                !.moved = @ \/ Moved(pushed.doc, f.current_section.some),
                !.content_lines = <<>>]
        ELSE [pushed EXCEPT
                 !.doc = [pushed.doc EXCEPT !.content = text_trim(f.content_lines)],
                 !.content_lines = <<>>]

\* the "## " branch
h2_line(f, line, landed) ==
    LET saved == save_content(f, landed)
        popped == [saved EXCEPT !.section_stack = adjust_stack(@, 2)]
    IN  push_to_root(popped, trim(from(line, 3)), 2)

\* the "### " branch
h3_line(f, line, landed, parent_landed) ==
    LET saved == save_content_h3(f, landed)
        popped == [saved EXCEPT !.section_stack = adjust_stack(@, 3)]
        stack == popped.section_stack
    IN  IF stack # <<>>
        THEN push_to_parent(popped, stack[Len(stack)][1], trim(from(line, 4)),
                            parent_landed)
        ELSE push_to_root(popped, trim(from(line, 4)), 3)

\* the block after the loop
finish(f, landed) ==
    IF f.content_lines = <<>> THEN f
    ELSE IF f.current_section # None THEN
        [f EXCEPT !.doc = write_content(f.doc, f.current_section.some,
                                        text_trim(f.content_lines), landed),
                  !.moved = @ \/ Moved(f.doc, f.current_section.some)]
    ELSE IF f.current_title # None THEN
        [f EXCEPT !.doc = [f.doc EXCEPT !.content = text_trim(f.content_lines)]]
    ELSE [f EXCEPT !.doc = [f.doc EXCEPT !.content = f.trimmed_md]]

\* the Value a Section or a Document serialises to
RECURSIVE section_value(_)
section_value(section) ==
    Object(<<"t", "i", "t", "l", "e">> :> String(section.title)
           @@ <<"c", "o", "n", "t", "e", "n", "t">> :> String(section.content)
           @@ <<"s", "e", "c", "t", "i", "o", "n", "s">> :>
                  Array([k \in 1..Len(section.sections) |->
                            section_value(section.sections[k])]))

\* serde_yaml::to_string(&doc)
document_to_string(doc) == yaml_to_string(section_value(doc))

-----------------------------------------------------------------------------
(* The caller of md_headings_to_yaml: it holds a Markdown text, enters the  *)
(* function, which takes the lines one by one, and gets the YAML text.      *)

MdLines ==
    {<<"-", "-", "-">>,
     <<"#", " ", "T">>,
     <<"#", "#", " ", "A">>,
     <<"#", "#", "#", " ", "B">>,
     <<"x">>,
     <<" ", "y">>,
     <<>>}

MdTexts == UNION {[1..n -> MdLines] : n \in 0..MaxLines}

InitMd ==
    /\ yaml = YamlText(Null, "block")
    /\ edited = yaml
    /\ patch = JsonArrayText(<<>>)
    /\ pc = "start"
    /\ ret = NoReturn
    /\ frame \in {[md |-> md] : md \in MdTexts}

InLoop == pc = "while" /\ frame.i < Len(frame.lines)

\* lines[i].trim()
TheLine == trim(frame.lines[frame.i + 1])

IsTitleLine(f, line) == starts_with(line, <<"#", " ">>) /\ f.current_title = None
IsH2Line(line) == starts_with(line, <<"#", "#", " ">>)
IsH3Line(line) == starts_with(line, <<"#", "#", "#", " ">>)

Enter ==
    /\ pc = "start"
    /\ frame' = enter(frame.md)
    /\ pc' = "while"
    /\ UNCHANGED <<yaml, edited, patch, ret>>

TitleLine ==
    /\ InLoop
    /\ IsTitleLine(frame, TheLine)
    /\ frame' = [title_line(frame, TheLine) EXCEPT !.i = @ + 1]
    /\ UNCHANGED <<yaml, edited, patch, pc, ret>>

H2Line ==
    /\ InLoop
    /\ ~IsTitleLine(frame, TheLine)
    /\ IsH2Line(TheLine)
    /\ \E landed \in BOOLEAN :
           /\ frame.current_section # None =>
                  landed \in Landings(frame.doc, frame.current_section.some)
           /\ frame.current_section = None => landed
           /\ frame' = [h2_line(frame, TheLine, landed) EXCEPT !.i = @ + 1]
    /\ UNCHANGED <<yaml, edited, patch, pc, ret>>

H3Line ==
    /\ InLoop
    /\ ~IsTitleLine(frame, TheLine)
    /\ ~IsH2Line(TheLine)
    /\ IsH3Line(TheLine)
    /\ \E landed, parent_landed \in BOOLEAN :
           /\ frame.current_section # None =>
                  landed \in Landings(frame.doc, frame.current_section.some)
           /\ frame.current_section = None => landed
           /\ LET stack == adjust_stack(frame.section_stack, 3) IN
              IF stack # <<>>
              THEN parent_landed \in Landings(frame.doc, stack[Len(stack)][1])
              ELSE parent_landed
           /\ frame' = [h3_line(frame, TheLine, landed, parent_landed)
                            EXCEPT !.i = @ + 1]
    /\ UNCHANGED <<yaml, edited, patch, pc, ret>>

ContentLine ==
    /\ InLoop
    /\ ~IsTitleLine(frame, TheLine)
    /\ ~IsH2Line(TheLine)
    /\ ~IsH3Line(TheLine)
    /\ frame' = [frame EXCEPT !.content_lines = Append(@, TheLine), !.i = @ + 1]
    /\ UNCHANGED <<yaml, edited, patch, pc, ret>>

Return ==
    /\ pc = "while"
    /\ frame.i >= Len(frame.lines)
    /\ \E landed \in BOOLEAN :
           /\ frame.current_section # None =>
                  landed \in Landings(frame.doc, frame.current_section.some)
           /\ frame.current_section = None => landed
           /\ frame' = finish(frame, landed)
    /\ ret' = document_to_string(frame'.doc)
    /\ pc' = "md_headings_to_yaml"
    /\ UNCHANGED <<yaml, edited, patch>>

NextMd == Enter \/ TitleLine \/ H2Line \/ H3Line \/ ContentLine \/ Return

SpecMd == InitMd /\ [][NextMd]_vars

-----------------------------------------------------------------------------
(* Properties of md_headings_to_yaml *)

Returned == pc = "md_headings_to_yaml"

\* the ascending sequence of a set of line numbers
RECURSIVE Ascending(_)
Ascending(S) ==
    IF S = {} THEN <<>>
    ELSE LET m == CHOOSE k \in S : \A j \in S : k <= j
         IN  <<m>> \o Ascending(S \ {m})

\* the line numbers of the "## " and "### " lines
H2Lines(lines) == {k \in 1..Len(lines) : IsH2Line(trim(lines[k]))}
H3Lines(lines) == {k \in 1..Len(lines) : IsH3Line(trim(lines[k]))}

\* the number of the first "# " line, 0 if there is none
FirstTitleLine(lines) ==
    LET titles == {k \in 1..Len(lines) : starts_with(trim(lines[k]), <<"#", " ">>)}
    IN  IF titles = {} THEN 0 ELSE CHOOSE k \in titles : \A j \in titles : k <= j

\* the number of the next "## " or "### " line after line k, or of the line
\* after the last
NextHeading(lines, k) ==
    LET later == {j \in H2Lines(lines) \cup H3Lines(lines) : j > k} \cup {Len(lines) + 1}
    IN  CHOOSE j \in later : \A m \in later : j <= m

\* the lines after heading k up to the next heading, the title line left out,
\* each trimmed, the whole trimmed
ContentOf(lines, k) ==
    LET between == Ascending({j \in (k + 1)..(NextHeading(lines, k) - 1) :
                                 j # FirstTitleLine(lines)})
    IN  text_trim([m \in 1..Len(between) |-> trim(lines[between[m]])])

\* "## " lines, and "### " lines that no "## " line precedes
RootHeadings(lines) ==
    H2Lines(lines)
    \cup {k \in H3Lines(lines) : \A j \in H2Lines(lines) : j > k}

\* the "### " lines after the "## " line k and before the next "## " line
ChildHeadings(lines, k) ==
    IF k \in H3Lines(lines) THEN {}
    ELSE {j \in H3Lines(lines) :
             j > k /\ \A m \in H2Lines(lines) : m <= k \/ m > j}

HeadingTitle(lines, k) ==
    IF k \in H2Lines(lines) THEN trim(from(trim(lines[k]), 3))
    ELSE trim(from(trim(lines[k]), 4))

SectionOf(lines, k) ==
    LET children == Ascending(ChildHeadings(lines, k)) IN
    [title |-> HeadingTitle(lines, k),
     content |-> ContentOf(lines, k),
     sections |-> [m \in 1..Len(children) |->
                      [title |-> HeadingTitle(lines, children[m]),
                       content |-> ContentOf(lines, children[m]),
                       sections |-> <<>>]]]

Hierarchy(lines, doc) ==
    LET roots == Ascending(RootHeadings(lines))
        first == FirstTitleLine(lines)
    IN  /\ doc.title = IF first = 0 THEN <<>>
                       ELSE trim(from(trim(lines[first]), 2))
        /\ doc.sections = [m \in 1..Len(roots) |-> SectionOf(lines, roots[m])]

RootLevelH3 ==
    /\ Returned
    /\ frame.lines = <<<<"#", "#", "#", " ", "B">>, <<"#", "#", " ", "A">>,
                       <<"#", "#", "#", " ", "B">>>>
    /\ frame.doc.sections =
           <<Section(<<"B">>),
             [title |-> <<"A">>, content |-> <<>>,
              sections |-> <<Section(<<"B">>)>>]>>

-----------------------------------------------------------------------------
(* Properties of the pointers of md_headings_to_yaml *)

\* the levels of the entries of the stack, bottom first
Levels(section_stack) == [k \in 1..Len(section_stack) |-> section_stack[k][2]]

\* C29: for every input, whenever current_section or an entry of
\* section_stack has been dereferenced, no push onto the list it points into
\* had happened since the pointer was taken, so the section had not moved;
\* and the stack holds at most one level-2 entry below at most one level-3
\* entry.
C29_PointerValidity ==
    pc # "start" =>
        /\ ~frame.moved
        /\ Levels(frame.section_stack) \in {<<>>, <<2>>, <<3>>, <<2, 3>>}

\* the pointer to a "## " section has been used for two pushes of children
\* and the pointers to both children for their content
C29_Witness ==
    /\ Returned
    /\ Len(frame.doc.sections) = 1
    /\ Len(frame.doc.sections[1].sections) = 2
    /\ frame.doc.sections[1].sections[1].content # <<>>
    /\ frame.doc.sections[1].sections[2].content # <<>>
    /\ Levels(frame.section_stack) = <<2, 3>>
    /\ ~frame.moved

\* every pointer held at the head of the loop points at the last element of
\* its list, which has the length it had when the pointer was taken
PointersAtLast ==
    pc = "while" =>
        /\ frame.current_section # None =>
               ~Moved(frame.doc, frame.current_section.some)
        /\ \A k \in 1..Len(frame.section_stack) :
               ~Moved(frame.doc, frame.section_stack[k][1])

-----------------------------------------------------------------------------
(* Properties of the content md_headings_to_yaml keeps *)

\* the lines that are neither blank nor a "# ", "## " or "### " line
IsContentText(line) ==
    /\ line # <<>>
    /\ ~starts_with(line, <<"#", " ">>)
    /\ ~IsH2Line(line)
    /\ ~IsH3Line(line)

Occurrences(text, line) == Cardinality({k \in 1..Len(text) : text[k] = line})

RECURSIVE OccurrencesInSections(_, _)
OccurrencesInSections(sections, line) ==
    IF sections = <<>> THEN 0
    ELSE Occurrences(Head(sections).content, line)
         + OccurrencesInSections(Head(sections).sections, line)
         + OccurrencesInSections(Tail(sections), line)

TrimmedLines(lines) == [k \in 1..Len(lines) |-> trim(lines[k])]

\* C30: for every input that has a title line, every line that is neither a
\* heading nor blank is in the content of the document or of exactly one
\* section when md_headings_to_yaml returns, the lines between the title and
\* a "### " line that no "## " line precedes included.
C30_NoContentDropped ==
    (Returned /\ FirstTitleLine(frame.lines) # 0) =>
        \A k \in 1..Len(frame.lines) :
            IsContentText(trim(frame.lines[k])) =>
                Occurrences(frame.doc.content, trim(frame.lines[k]))
                    + OccurrencesInSections(frame.doc.sections, trim(frame.lines[k]))
                = Occurrences(TrimmedLines(frame.lines), trim(frame.lines[k]))

\* the line between the title and a "### " line is in no content
ContentDroppedAtH3 ==
    /\ Returned
    /\ frame.lines = <<<<"#", " ", "T">>, <<"x">>, <<"#", "#", "#", " ", "B">>>>
    /\ frame.doc = [title |-> <<"T">>, content |-> <<>>,
                    sections |-> <<Section(<<"B">>)>>]

\* the line between the title and a "## " line is the content of the document
ContentKeptAtH2 ==
    /\ Returned
    /\ frame.lines = <<<<"#", " ", "T">>, <<"x">>, <<"#", "#", " ", "A">>>>
    /\ frame.doc = [title |-> <<"T">>, content |-> << <<"x">> >>,
                    sections |-> <<Section(<<"A">>)>>]

\* without a "### " line that follows content and has no section before it
\* no line is dropped
ContentKeptButAtH3 ==
    (Returned /\ FirstTitleLine(frame.lines) # 0
        /\ \A j \in H3Lines(frame.lines) :
               \/ RootHeadings(frame.lines) \cap 1..(j - 1) # {}
               \/ \A k \in 1..(j - 1) : ~IsContentText(trim(frame.lines[k])))
        => \A k \in 1..Len(frame.lines) :
               IsContentText(trim(frame.lines[k])) =>
                   Occurrences(frame.doc.content, trim(frame.lines[k]))
                       + OccurrencesInSections(frame.doc.sections, trim(frame.lines[k]))
                   = Occurrences(TrimmedLines(frame.lines), trim(frame.lines[k]))

====
